---- MODULE Spec2Model ----
(***************************************************************************)
(* TV/sort_channels.py: the M3U playlist parser (parse_m3u_to_txt) and the *)
(* merge-and-classify pipeline (main).                                     *)
(*                                                                         *)
(* A Python str is a sequence of one-character strings.  A code point      *)
(* outside ASCII is written "Uxxxx" and still counts as one character, and *)
(* so is U+0060, which a TLA+ string cannot hold.                          *)
(***************************************************************************)
EXTENDS Naturals, Sequences, FiniteSets, Bags

VARIABLES
    \* ---- main() ----
    pc,             \* position in main()
    source_urls,    \* list of str, as load_source_urls() returned it
    network,        \* per source: [ok, text], what requests.get of it gives
    src_i,          \* index of the next source of the fetch loop
    all_content,    \* str
    template_file,  \* TV/moban.txt: [exists, lines]
    categories,     \* ordered dict: sequence of [category, channels]
    all_lines,      \* list of str
    sorted_content, \* list of str
    matched_lines,  \* set of str
    cat_i,          \* index of the current category of the classify loop
    chan_i,         \* index of the next channel of the current category
    other_lines,    \* list of str
    output_file,    \* TV/live.txt: [exists, content], content the bytes of the file
    \* ---- parse_m3u_to_txt() ----
    ppc,            \* position in parse_m3u_to_txt()
    m3u_content,    \* str argument
    mapping,        \* dict old name -> new name
    lines,          \* list of str
    p_i,            \* loop index i (1-based)
    channels,       \* ordered dict: sequence of [group, channel_list]
    current_group,  \* str
    txt_content     \* str result

mainvars == <<pc, source_urls, network, src_i, all_content, template_file, categories,
              all_lines, sorted_content, matched_lines, cat_i, chan_i, other_lines,
              output_file>>
parsevars == <<ppc, m3u_content, lines, p_i, channels, current_group, txt_content>>
vars == <<mainvars, parsevars, mapping>>

----------------------------------------------------------------------------
(* Bounds of the model *)

MaxDocLines == 4
MaxSources == 2
MaxTemplateLines == 3

----------------------------------------------------------------------------
(* Python str and re primitives, on sequences of characters *)

NL == <<"\n">>
COMMA == <<",">>

\* the characters of str.isspace() and of the regex \s: U+0009..U+000D, U+001C..U+001F,
\* U+0020, U+0085, U+00A0, U+1680, U+2000..U+200A, U+2028, U+2029, U+202F, U+205F, U+3000
Whitespace ==
    {"\t", "\n", "", "\f", "\r", "", "", "", "", " ", "U0085", "U00A0", "U1680",
     "U2000", "U2001", "U2002", "U2003", "U2004", "U2005", "U2006", "U2007", "U2008",
     "U2009", "U200A", "U2028", "U2029", "U202F", "U205F", "U3000"}

IsSpace(c) == c \in Whitespace

RECURSIVE lstrip(_)
lstrip(s) == IF s # <<>> /\ IsSpace(Head(s)) THEN lstrip(Tail(s)) ELSE s

RECURSIVE rstrip(_)
rstrip(s) == IF s # <<>> /\ IsSpace(s[Len(s)]) THEN rstrip(SubSeq(s, 1, Len(s) - 1)) ELSE s

strip(s) == rstrip(lstrip(s))

startswith(s, p) == Len(s) >= Len(p) /\ SubSeq(s, 1, Len(p)) = p

\* str.find(), 1-based, 0 when p does not occur in s
find(s, p) ==
    LET hits == {i \in 1..(Len(s) + 1) : i + Len(p) - 1 <= Len(s) /\ SubSeq(s, i, i + Len(p) - 1) = p}
    IN  IF hits = {} THEN 0 ELSE CHOOSE i \in hits : \A j \in hits : i <= j

\* str.rfind(), 1-based, 0 when p does not occur in s
rfind(s, p) ==
    LET hits == {i \in 1..(Len(s) + 1) : i + Len(p) - 1 <= Len(s) /\ SubSeq(s, i, i + Len(p) - 1) = p}
    IN  IF hits = {} THEN 0 ELSE CHOOSE i \in hits : \A j \in hits : i >= j

contains(s, p) == find(s, p) # 0

\* s.split(sep) for a one-character sep: never an empty list
RECURSIVE split(_, _)
split(s, sep) ==
    LET k == find(s, sep)
    IN  IF k = 0 THEN <<s>>
        ELSE <<SubSeq(s, 1, k - 1)>> \o split(SubSeq(s, k + 1, Len(s)), sep)

\* the line boundaries of str.splitlines(): U+000A..U+000D, U+001C..U+001E, U+0085,
\* U+2028, U+2029
LineBreaks ==
    {"\n", "", "\f", "\r", "", "", "", "U0085", "U2028", "U2029"}

\* s.splitlines(): breaks at every line boundary, \r\n being one; no empty last line
RECURSIVE splitlines(_)
splitlines(s) ==
    LET brk == {i \in 1..Len(s) : s[i] \in LineBreaks}
    IN  IF s = <<>> THEN <<>>
        ELSE IF brk = {} THEN <<s>>
        ELSE LET k == CHOOSE i \in brk : \A j \in brk : i <= j
                 w == IF s[k] = "\r" /\ k < Len(s) /\ s[k + 1] = "\n" THEN 2 ELSE 1
             IN  <<SubSeq(s, 1, k - 1)>> \o splitlines(SubSeq(s, k + w, Len(s)))

\* sep.join(list)
RECURSIVE join(_, _)
join(sep, list) ==
    IF list = <<>> THEN <<>>
    ELSE IF Len(list) = 1 THEN list[1]
    ELSE list[1] \o sep \o join(sep, Tail(list))

\* re.IGNORECASE on a str pattern: two characters match when their lower-case forms
\* (unicode_tolower) are equal or are cases of one another (re._casefix).  CasedChars
\* lists every code point whose representative differs from itself, FoldedChars the
\* representative at the same index; any other character stands for itself.
CasedChars ==
    <<"A", "B", "C", "D", "E", "F", "G", "H", "I", "J", "K", "L", "M", "N", "O", "P",
      "Q", "R", "S", "T", "U", "V", "W", "X", "Y", "Z", "U00C0", "U00C1", "U00C2",
      "U00C3", "U00C4", "U00C5", "U00C6", "U00C7", "U00C8", "U00C9", "U00CA", "U00CB",
      "U00CC", "U00CD", "U00CE", "U00CF", "U00D0", "U00D1", "U00D2", "U00D3", "U00D4",
      "U00D5", "U00D6", "U00D8", "U00D9", "U00DA", "U00DB", "U00DC", "U00DD", "U00DE",
      "U0100", "U0102", "U0104", "U0106", "U0108", "U010A", "U010C", "U010E", "U0110",
      "U0112", "U0114", "U0116", "U0118", "U011A", "U011C", "U011E", "U0120", "U0122",
      "U0124", "U0126", "U0128", "U012A", "U012C", "U012E", "U0130", "U0131", "U0132",
      "U0134", "U0136", "U0139", "U013B", "U013D", "U013F", "U0141", "U0143", "U0145",
      "U0147", "U014A", "U014C", "U014E", "U0150", "U0152", "U0154", "U0156", "U0158",
      "U015A", "U015C", "U015E", "U0160", "U0162", "U0164", "U0166", "U0168", "U016A",
      "U016C", "U016E", "U0170", "U0172", "U0174", "U0176", "U0178", "U0179", "U017B",
      "U017D", "U017F", "U0181", "U0182", "U0184", "U0186", "U0187", "U0189", "U018A",
      "U018B", "U018E", "U018F", "U0190", "U0191", "U0193", "U0194", "U0196", "U0197",
      "U0198", "U019C", "U019D", "U019F", "U01A0", "U01A2", "U01A4", "U01A6", "U01A7",
      "U01A9", "U01AC", "U01AE", "U01AF", "U01B1", "U01B2", "U01B3", "U01B5", "U01B7",
      "U01B8", "U01BC", "U01C4", "U01C5", "U01C7", "U01C8", "U01CA", "U01CB", "U01CD",
      "U01CF", "U01D1", "U01D3", "U01D5", "U01D7", "U01D9", "U01DB", "U01DE", "U01E0",
      "U01E2", "U01E4", "U01E6", "U01E8", "U01EA", "U01EC", "U01EE", "U01F1", "U01F2",
      "U01F4", "U01F6", "U01F7", "U01F8", "U01FA", "U01FC", "U01FE", "U0200", "U0202",
      "U0204", "U0206", "U0208", "U020A", "U020C", "U020E", "U0210", "U0212", "U0214",
      "U0216", "U0218", "U021A", "U021C", "U021E", "U0220", "U0222", "U0224", "U0226",
      "U0228", "U022A", "U022C", "U022E", "U0230", "U0232", "U023A", "U023B", "U023D",
      "U023E", "U0241", "U0243", "U0244", "U0245", "U0246", "U0248", "U024A", "U024C",
      "U024E", "U0370", "U0372", "U0376", "U037F", "U0386", "U0388", "U0389", "U038A",
      "U038C", "U038E", "U038F", "U0391", "U0392", "U0393", "U0394", "U0395", "U0396",
      "U0397", "U0398", "U0399", "U039A", "U039B", "U039C", "U039D", "U039E", "U039F",
      "U03A0", "U03A1", "U03A3", "U03A4", "U03A5", "U03A6", "U03A7", "U03A8", "U03A9",
      "U03AA", "U03AB", "U03B9", "U03BC", "U03C3", "U03CF", "U03D0", "U03D1", "U03D5",
      "U03D6", "U03D8", "U03DA", "U03DC", "U03DE", "U03E0", "U03E2", "U03E4", "U03E6",
      "U03E8", "U03EA", "U03EC", "U03EE", "U03F0", "U03F1", "U03F4", "U03F5", "U03F7",
      "U03F9", "U03FA", "U03FD", "U03FE", "U03FF", "U0400", "U0401", "U0402", "U0403",
      "U0404", "U0405", "U0406", "U0407", "U0408", "U0409", "U040A", "U040B", "U040C",
      "U040D", "U040E", "U040F", "U0410", "U0411", "U0412", "U0413", "U0414", "U0415",
      "U0416", "U0417", "U0418", "U0419", "U041A", "U041B", "U041C", "U041D", "U041E",
      "U041F", "U0420", "U0421", "U0422", "U0423", "U0424", "U0425", "U0426", "U0427",
      "U0428", "U0429", "U042A", "U042B", "U042C", "U042D", "U042E", "U042F", "U0460",
      "U0462", "U0464", "U0466", "U0468", "U046A", "U046C", "U046E", "U0470", "U0472",
      "U0474", "U0476", "U0478", "U047A", "U047C", "U047E", "U0480", "U048A", "U048C",
      "U048E", "U0490", "U0492", "U0494", "U0496", "U0498", "U049A", "U049C", "U049E",
      "U04A0", "U04A2", "U04A4", "U04A6", "U04A8", "U04AA", "U04AC", "U04AE", "U04B0",
      "U04B2", "U04B4", "U04B6", "U04B8", "U04BA", "U04BC", "U04BE", "U04C0", "U04C1",
      "U04C3", "U04C5", "U04C7", "U04C9", "U04CB", "U04CD", "U04D0", "U04D2", "U04D4",
      "U04D6", "U04D8", "U04DA", "U04DC", "U04DE", "U04E0", "U04E2", "U04E4", "U04E6",
      "U04E8", "U04EA", "U04EC", "U04EE", "U04F0", "U04F2", "U04F4", "U04F6", "U04F8",
      "U04FA", "U04FC", "U04FE", "U0500", "U0502", "U0504", "U0506", "U0508", "U050A",
      "U050C", "U050E", "U0510", "U0512", "U0514", "U0516", "U0518", "U051A", "U051C",
      "U051E", "U0520", "U0522", "U0524", "U0526", "U0528", "U052A", "U052C", "U052E",
      "U0531", "U0532", "U0533", "U0534", "U0535", "U0536", "U0537", "U0538", "U0539",
      "U053A", "U053B", "U053C", "U053D", "U053E", "U053F", "U0540", "U0541", "U0542",
      "U0543", "U0544", "U0545", "U0546", "U0547", "U0548", "U0549", "U054A", "U054B",
      "U054C", "U054D", "U054E", "U054F", "U0550", "U0551", "U0552", "U0553", "U0554",
      "U0555", "U0556", "U10A0", "U10A1", "U10A2", "U10A3", "U10A4", "U10A5", "U10A6",
      "U10A7", "U10A8", "U10A9", "U10AA", "U10AB", "U10AC", "U10AD", "U10AE", "U10AF",
      "U10B0", "U10B1", "U10B2", "U10B3", "U10B4", "U10B5", "U10B6", "U10B7", "U10B8",
      "U10B9", "U10BA", "U10BB", "U10BC", "U10BD", "U10BE", "U10BF", "U10C0", "U10C1",
      "U10C2", "U10C3", "U10C4", "U10C5", "U10C7", "U10CD", "U13A0", "U13A1", "U13A2",
      "U13A3", "U13A4", "U13A5", "U13A6", "U13A7", "U13A8", "U13A9", "U13AA", "U13AB",
      "U13AC", "U13AD", "U13AE", "U13AF", "U13B0", "U13B1", "U13B2", "U13B3", "U13B4",
      "U13B5", "U13B6", "U13B7", "U13B8", "U13B9", "U13BA", "U13BB", "U13BC", "U13BD",
      "U13BE", "U13BF", "U13C0", "U13C1", "U13C2", "U13C3", "U13C4", "U13C5", "U13C6",
      "U13C7", "U13C8", "U13C9", "U13CA", "U13CB", "U13CC", "U13CD", "U13CE", "U13CF",
      "U13D0", "U13D1", "U13D2", "U13D3", "U13D4", "U13D5", "U13D6", "U13D7", "U13D8",
      "U13D9", "U13DA", "U13DB", "U13DC", "U13DD", "U13DE", "U13DF", "U13E0", "U13E1",
      "U13E2", "U13E3", "U13E4", "U13E5", "U13E6", "U13E7", "U13E8", "U13E9", "U13EA",
      "U13EB", "U13EC", "U13ED", "U13EE", "U13EF", "U13F0", "U13F1", "U13F2", "U13F3",
      "U13F4", "U13F5", "U1C80", "U1C81", "U1C82", "U1C83", "U1C84", "U1C85", "U1C86",
      "U1C87", "U1C90", "U1C91", "U1C92", "U1C93", "U1C94", "U1C95", "U1C96", "U1C97",
      "U1C98", "U1C99", "U1C9A", "U1C9B", "U1C9C", "U1C9D", "U1C9E", "U1C9F", "U1CA0",
      "U1CA1", "U1CA2", "U1CA3", "U1CA4", "U1CA5", "U1CA6", "U1CA7", "U1CA8", "U1CA9",
      "U1CAA", "U1CAB", "U1CAC", "U1CAD", "U1CAE", "U1CAF", "U1CB0", "U1CB1", "U1CB2",
      "U1CB3", "U1CB4", "U1CB5", "U1CB6", "U1CB7", "U1CB8", "U1CB9", "U1CBA", "U1CBD",
      "U1CBE", "U1CBF", "U1E00", "U1E02", "U1E04", "U1E06", "U1E08", "U1E0A", "U1E0C",
      "U1E0E", "U1E10", "U1E12", "U1E14", "U1E16", "U1E18", "U1E1A", "U1E1C", "U1E1E",
      "U1E20", "U1E22", "U1E24", "U1E26", "U1E28", "U1E2A", "U1E2C", "U1E2E", "U1E30",
      "U1E32", "U1E34", "U1E36", "U1E38", "U1E3A", "U1E3C", "U1E3E", "U1E40", "U1E42",
      "U1E44", "U1E46", "U1E48", "U1E4A", "U1E4C", "U1E4E", "U1E50", "U1E52", "U1E54",
      "U1E56", "U1E58", "U1E5A", "U1E5C", "U1E5E", "U1E60", "U1E62", "U1E64", "U1E66",
      "U1E68", "U1E6A", "U1E6C", "U1E6E", "U1E70", "U1E72", "U1E74", "U1E76", "U1E78",
      "U1E7A", "U1E7C", "U1E7E", "U1E80", "U1E82", "U1E84", "U1E86", "U1E88", "U1E8A",
      "U1E8C", "U1E8E", "U1E90", "U1E92", "U1E94", "U1E9B", "U1E9E", "U1EA0", "U1EA2",
      "U1EA4", "U1EA6", "U1EA8", "U1EAA", "U1EAC", "U1EAE", "U1EB0", "U1EB2", "U1EB4",
      "U1EB6", "U1EB8", "U1EBA", "U1EBC", "U1EBE", "U1EC0", "U1EC2", "U1EC4", "U1EC6",
      "U1EC8", "U1ECA", "U1ECC", "U1ECE", "U1ED0", "U1ED2", "U1ED4", "U1ED6", "U1ED8",
      "U1EDA", "U1EDC", "U1EDE", "U1EE0", "U1EE2", "U1EE4", "U1EE6", "U1EE8", "U1EEA",
      "U1EEC", "U1EEE", "U1EF0", "U1EF2", "U1EF4", "U1EF6", "U1EF8", "U1EFA", "U1EFC",
      "U1EFE", "U1F08", "U1F09", "U1F0A", "U1F0B", "U1F0C", "U1F0D", "U1F0E", "U1F0F",
      "U1F18", "U1F19", "U1F1A", "U1F1B", "U1F1C", "U1F1D", "U1F28", "U1F29", "U1F2A",
      "U1F2B", "U1F2C", "U1F2D", "U1F2E", "U1F2F", "U1F38", "U1F39", "U1F3A", "U1F3B",
      "U1F3C", "U1F3D", "U1F3E", "U1F3F", "U1F48", "U1F49", "U1F4A", "U1F4B", "U1F4C",
      "U1F4D", "U1F59", "U1F5B", "U1F5D", "U1F5F", "U1F68", "U1F69", "U1F6A", "U1F6B",
      "U1F6C", "U1F6D", "U1F6E", "U1F6F", "U1F88", "U1F89", "U1F8A", "U1F8B", "U1F8C",
      "U1F8D", "U1F8E", "U1F8F", "U1F98", "U1F99", "U1F9A", "U1F9B", "U1F9C", "U1F9D",
      "U1F9E", "U1F9F", "U1FA8", "U1FA9", "U1FAA", "U1FAB", "U1FAC", "U1FAD", "U1FAE",
      "U1FAF", "U1FB8", "U1FB9", "U1FBA", "U1FBB", "U1FBC", "U1FBE", "U1FC8", "U1FC9",
      "U1FCA", "U1FCB", "U1FCC", "U1FD3", "U1FD8", "U1FD9", "U1FDA", "U1FDB", "U1FE3",
      "U1FE8", "U1FE9", "U1FEA", "U1FEB", "U1FEC", "U1FF8", "U1FF9", "U1FFA", "U1FFB",
      "U1FFC", "U2126", "U212A", "U212B", "U2132", "U2160", "U2161", "U2162", "U2163",
      "U2164", "U2165", "U2166", "U2167", "U2168", "U2169", "U216A", "U216B", "U216C",
      "U216D", "U216E", "U216F", "U2183", "U24B6", "U24B7", "U24B8", "U24B9", "U24BA",
      "U24BB", "U24BC", "U24BD", "U24BE", "U24BF", "U24C0", "U24C1", "U24C2", "U24C3",
      "U24C4", "U24C5", "U24C6", "U24C7", "U24C8", "U24C9", "U24CA", "U24CB", "U24CC",
      "U24CD", "U24CE", "U24CF", "U2C00", "U2C01", "U2C02", "U2C03", "U2C04", "U2C05",
      "U2C06", "U2C07", "U2C08", "U2C09", "U2C0A", "U2C0B", "U2C0C", "U2C0D", "U2C0E",
      "U2C0F", "U2C10", "U2C11", "U2C12", "U2C13", "U2C14", "U2C15", "U2C16", "U2C17",
      "U2C18", "U2C19", "U2C1A", "U2C1B", "U2C1C", "U2C1D", "U2C1E", "U2C1F", "U2C20",
      "U2C21", "U2C22", "U2C23", "U2C24", "U2C25", "U2C26", "U2C27", "U2C28", "U2C29",
      "U2C2A", "U2C2B", "U2C2C", "U2C2D", "U2C2E", "U2C2F", "U2C60", "U2C62", "U2C63",
      "U2C64", "U2C67", "U2C69", "U2C6B", "U2C6D", "U2C6E", "U2C6F", "U2C70", "U2C72",
      "U2C75", "U2C7E", "U2C7F", "U2C80", "U2C82", "U2C84", "U2C86", "U2C88", "U2C8A",
      "U2C8C", "U2C8E", "U2C90", "U2C92", "U2C94", "U2C96", "U2C98", "U2C9A", "U2C9C",
      "U2C9E", "U2CA0", "U2CA2", "U2CA4", "U2CA6", "U2CA8", "U2CAA", "U2CAC", "U2CAE",
      "U2CB0", "U2CB2", "U2CB4", "U2CB6", "U2CB8", "U2CBA", "U2CBC", "U2CBE", "U2CC0",
      "U2CC2", "U2CC4", "U2CC6", "U2CC8", "U2CCA", "U2CCC", "U2CCE", "U2CD0", "U2CD2",
      "U2CD4", "U2CD6", "U2CD8", "U2CDA", "U2CDC", "U2CDE", "U2CE0", "U2CE2", "U2CEB",
      "U2CED", "U2CF2", "UA640", "UA642", "UA644", "UA646", "UA648", "UA64A", "UA64B",
      "UA64C", "UA64E", "UA650", "UA652", "UA654", "UA656", "UA658", "UA65A", "UA65C",
      "UA65E", "UA660", "UA662", "UA664", "UA666", "UA668", "UA66A", "UA66C", "UA680",
      "UA682", "UA684", "UA686", "UA688", "UA68A", "UA68C", "UA68E", "UA690", "UA692",
      "UA694", "UA696", "UA698", "UA69A", "UA722", "UA724", "UA726", "UA728", "UA72A",
      "UA72C", "UA72E", "UA732", "UA734", "UA736", "UA738", "UA73A", "UA73C", "UA73E",
      "UA740", "UA742", "UA744", "UA746", "UA748", "UA74A", "UA74C", "UA74E", "UA750",
      "UA752", "UA754", "UA756", "UA758", "UA75A", "UA75C", "UA75E", "UA760", "UA762",
      "UA764", "UA766", "UA768", "UA76A", "UA76C", "UA76E", "UA779", "UA77B", "UA77D",
      "UA77E", "UA780", "UA782", "UA784", "UA786", "UA78B", "UA78D", "UA790", "UA792",
      "UA796", "UA798", "UA79A", "UA79C", "UA79E", "UA7A0", "UA7A2", "UA7A4", "UA7A6",
      "UA7A8", "UA7AA", "UA7AB", "UA7AC", "UA7AD", "UA7AE", "UA7B0", "UA7B1", "UA7B2",
      "UA7B3", "UA7B4", "UA7B6", "UA7B8", "UA7BA", "UA7BC", "UA7BE", "UA7C0", "UA7C2",
      "UA7C4", "UA7C5", "UA7C6", "UA7C7", "UA7C9", "UA7D0", "UA7D6", "UA7D8", "UA7F5",
      "UFB06", "UFF21", "UFF22", "UFF23", "UFF24", "UFF25", "UFF26", "UFF27", "UFF28",
      "UFF29", "UFF2A", "UFF2B", "UFF2C", "UFF2D", "UFF2E", "UFF2F", "UFF30", "UFF31",
      "UFF32", "UFF33", "UFF34", "UFF35", "UFF36", "UFF37", "UFF38", "UFF39", "UFF3A",
      "U10400", "U10401", "U10402", "U10403", "U10404", "U10405", "U10406", "U10407",
      "U10408", "U10409", "U1040A", "U1040B", "U1040C", "U1040D", "U1040E", "U1040F",
      "U10410", "U10411", "U10412", "U10413", "U10414", "U10415", "U10416", "U10417",
      "U10418", "U10419", "U1041A", "U1041B", "U1041C", "U1041D", "U1041E", "U1041F",
      "U10420", "U10421", "U10422", "U10423", "U10424", "U10425", "U10426", "U10427",
      "U104B0", "U104B1", "U104B2", "U104B3", "U104B4", "U104B5", "U104B6", "U104B7",
      "U104B8", "U104B9", "U104BA", "U104BB", "U104BC", "U104BD", "U104BE", "U104BF",
      "U104C0", "U104C1", "U104C2", "U104C3", "U104C4", "U104C5", "U104C6", "U104C7",
      "U104C8", "U104C9", "U104CA", "U104CB", "U104CC", "U104CD", "U104CE", "U104CF",
      "U104D0", "U104D1", "U104D2", "U104D3", "U10570", "U10571", "U10572", "U10573",
      "U10574", "U10575", "U10576", "U10577", "U10578", "U10579", "U1057A", "U1057C",
      "U1057D", "U1057E", "U1057F", "U10580", "U10581", "U10582", "U10583", "U10584",
      "U10585", "U10586", "U10587", "U10588", "U10589", "U1058A", "U1058C", "U1058D",
      "U1058E", "U1058F", "U10590", "U10591", "U10592", "U10594", "U10595", "U10C80",
      "U10C81", "U10C82", "U10C83", "U10C84", "U10C85", "U10C86", "U10C87", "U10C88",
      "U10C89", "U10C8A", "U10C8B", "U10C8C", "U10C8D", "U10C8E", "U10C8F", "U10C90",
      "U10C91", "U10C92", "U10C93", "U10C94", "U10C95", "U10C96", "U10C97", "U10C98",
      "U10C99", "U10C9A", "U10C9B", "U10C9C", "U10C9D", "U10C9E", "U10C9F", "U10CA0",
      "U10CA1", "U10CA2", "U10CA3", "U10CA4", "U10CA5", "U10CA6", "U10CA7", "U10CA8",
      "U10CA9", "U10CAA", "U10CAB", "U10CAC", "U10CAD", "U10CAE", "U10CAF", "U10CB0",
      "U10CB1", "U10CB2", "U118A0", "U118A1", "U118A2", "U118A3", "U118A4", "U118A5",
      "U118A6", "U118A7", "U118A8", "U118A9", "U118AA", "U118AB", "U118AC", "U118AD",
      "U118AE", "U118AF", "U118B0", "U118B1", "U118B2", "U118B3", "U118B4", "U118B5",
      "U118B6", "U118B7", "U118B8", "U118B9", "U118BA", "U118BB", "U118BC", "U118BD",
      "U118BE", "U118BF", "U16E40", "U16E41", "U16E42", "U16E43", "U16E44", "U16E45",
      "U16E46", "U16E47", "U16E48", "U16E49", "U16E4A", "U16E4B", "U16E4C", "U16E4D",
      "U16E4E", "U16E4F", "U16E50", "U16E51", "U16E52", "U16E53", "U16E54", "U16E55",
      "U16E56", "U16E57", "U16E58", "U16E59", "U16E5A", "U16E5B", "U16E5C", "U16E5D",
      "U16E5E", "U16E5F", "U1E900", "U1E901", "U1E902", "U1E903", "U1E904", "U1E905",
      "U1E906", "U1E907", "U1E908", "U1E909", "U1E90A", "U1E90B", "U1E90C", "U1E90D",
      "U1E90E", "U1E90F", "U1E910", "U1E911", "U1E912", "U1E913", "U1E914", "U1E915",
      "U1E916", "U1E917", "U1E918", "U1E919", "U1E91A", "U1E91B", "U1E91C", "U1E91D",
      "U1E91E", "U1E91F", "U1E920", "U1E921">>

FoldedChars ==
    <<"a", "b", "c", "d", "e", "f", "g", "h", "i", "j", "k", "l", "m", "n", "o", "p",
      "q", "r", "s", "t", "u", "v", "w", "x", "y", "z", "U00E0", "U00E1", "U00E2",
      "U00E3", "U00E4", "U00E5", "U00E6", "U00E7", "U00E8", "U00E9", "U00EA", "U00EB",
      "U00EC", "U00ED", "U00EE", "U00EF", "U00F0", "U00F1", "U00F2", "U00F3", "U00F4",
      "U00F5", "U00F6", "U00F8", "U00F9", "U00FA", "U00FB", "U00FC", "U00FD", "U00FE",
      "U0101", "U0103", "U0105", "U0107", "U0109", "U010B", "U010D", "U010F", "U0111",
      "U0113", "U0115", "U0117", "U0119", "U011B", "U011D", "U011F", "U0121", "U0123",
      "U0125", "U0127", "U0129", "U012B", "U012D", "U012F", "i", "i", "U0133", "U0135",
      "U0137", "U013A", "U013C", "U013E", "U0140", "U0142", "U0144", "U0146", "U0148",
      "U014B", "U014D", "U014F", "U0151", "U0153", "U0155", "U0157", "U0159", "U015B",
      "U015D", "U015F", "U0161", "U0163", "U0165", "U0167", "U0169", "U016B", "U016D",
      "U016F", "U0171", "U0173", "U0175", "U0177", "U00FF", "U017A", "U017C", "U017E",
      "s", "U0253", "U0183", "U0185", "U0254", "U0188", "U0256", "U0257", "U018C",
      "U01DD", "U0259", "U025B", "U0192", "U0260", "U0263", "U0269", "U0268", "U0199",
      "U026F", "U0272", "U0275", "U01A1", "U01A3", "U01A5", "U0280", "U01A8", "U0283",
      "U01AD", "U0288", "U01B0", "U028A", "U028B", "U01B4", "U01B6", "U0292", "U01B9",
      "U01BD", "U01C6", "U01C6", "U01C9", "U01C9", "U01CC", "U01CC", "U01CE", "U01D0",
      "U01D2", "U01D4", "U01D6", "U01D8", "U01DA", "U01DC", "U01DF", "U01E1", "U01E3",
      "U01E5", "U01E7", "U01E9", "U01EB", "U01ED", "U01EF", "U01F3", "U01F3", "U01F5",
      "U0195", "U01BF", "U01F9", "U01FB", "U01FD", "U01FF", "U0201", "U0203", "U0205",
      "U0207", "U0209", "U020B", "U020D", "U020F", "U0211", "U0213", "U0215", "U0217",
      "U0219", "U021B", "U021D", "U021F", "U019E", "U0223", "U0225", "U0227", "U0229",
      "U022B", "U022D", "U022F", "U0231", "U0233", "U2C65", "U023C", "U019A", "U2C66",
      "U0242", "U0180", "U0289", "U028C", "U0247", "U0249", "U024B", "U024D", "U024F",
      "U0371", "U0373", "U0377", "U03F3", "U03AC", "U03AD", "U03AE", "U03AF", "U03CC",
      "U03CD", "U03CE", "U03B1", "U03B2", "U03B3", "U03B4", "U03B5", "U03B6", "U03B7",
      "U03B8", "U0345", "U03BA", "U03BB", "U00B5", "U03BD", "U03BE", "U03BF", "U03C0",
      "U03C1", "U03C2", "U03C4", "U03C5", "U03C6", "U03C7", "U03C8", "U03C9", "U03CA",
      "U03CB", "U0345", "U00B5", "U03C2", "U03D7", "U03B2", "U03B8", "U03C6", "U03C0",
      "U03D9", "U03DB", "U03DD", "U03DF", "U03E1", "U03E3", "U03E5", "U03E7", "U03E9",
      "U03EB", "U03ED", "U03EF", "U03BA", "U03C1", "U03B8", "U03B5", "U03F8", "U03F2",
      "U03FB", "U037B", "U037C", "U037D", "U0450", "U0451", "U0452", "U0453", "U0454",
      "U0455", "U0456", "U0457", "U0458", "U0459", "U045A", "U045B", "U045C", "U045D",
      "U045E", "U045F", "U0430", "U0431", "U0432", "U0433", "U0434", "U0435", "U0436",
      "U0437", "U0438", "U0439", "U043A", "U043B", "U043C", "U043D", "U043E", "U043F",
      "U0440", "U0441", "U0442", "U0443", "U0444", "U0445", "U0446", "U0447", "U0448",
      "U0449", "U044A", "U044B", "U044C", "U044D", "U044E", "U044F", "U0461", "U0463",
      "U0465", "U0467", "U0469", "U046B", "U046D", "U046F", "U0471", "U0473", "U0475",
      "U0477", "U0479", "U047B", "U047D", "U047F", "U0481", "U048B", "U048D", "U048F",
      "U0491", "U0493", "U0495", "U0497", "U0499", "U049B", "U049D", "U049F", "U04A1",
      "U04A3", "U04A5", "U04A7", "U04A9", "U04AB", "U04AD", "U04AF", "U04B1", "U04B3",
      "U04B5", "U04B7", "U04B9", "U04BB", "U04BD", "U04BF", "U04CF", "U04C2", "U04C4",
      "U04C6", "U04C8", "U04CA", "U04CC", "U04CE", "U04D1", "U04D3", "U04D5", "U04D7",
      "U04D9", "U04DB", "U04DD", "U04DF", "U04E1", "U04E3", "U04E5", "U04E7", "U04E9",
      "U04EB", "U04ED", "U04EF", "U04F1", "U04F3", "U04F5", "U04F7", "U04F9", "U04FB",
      "U04FD", "U04FF", "U0501", "U0503", "U0505", "U0507", "U0509", "U050B", "U050D",
      "U050F", "U0511", "U0513", "U0515", "U0517", "U0519", "U051B", "U051D", "U051F",
      "U0521", "U0523", "U0525", "U0527", "U0529", "U052B", "U052D", "U052F", "U0561",
      "U0562", "U0563", "U0564", "U0565", "U0566", "U0567", "U0568", "U0569", "U056A",
      "U056B", "U056C", "U056D", "U056E", "U056F", "U0570", "U0571", "U0572", "U0573",
      "U0574", "U0575", "U0576", "U0577", "U0578", "U0579", "U057A", "U057B", "U057C",
      "U057D", "U057E", "U057F", "U0580", "U0581", "U0582", "U0583", "U0584", "U0585",
      "U0586", "U2D00", "U2D01", "U2D02", "U2D03", "U2D04", "U2D05", "U2D06", "U2D07",
      "U2D08", "U2D09", "U2D0A", "U2D0B", "U2D0C", "U2D0D", "U2D0E", "U2D0F", "U2D10",
      "U2D11", "U2D12", "U2D13", "U2D14", "U2D15", "U2D16", "U2D17", "U2D18", "U2D19",
      "U2D1A", "U2D1B", "U2D1C", "U2D1D", "U2D1E", "U2D1F", "U2D20", "U2D21", "U2D22",
      "U2D23", "U2D24", "U2D25", "U2D27", "U2D2D", "UAB70", "UAB71", "UAB72", "UAB73",
      "UAB74", "UAB75", "UAB76", "UAB77", "UAB78", "UAB79", "UAB7A", "UAB7B", "UAB7C",
      "UAB7D", "UAB7E", "UAB7F", "UAB80", "UAB81", "UAB82", "UAB83", "UAB84", "UAB85",
      "UAB86", "UAB87", "UAB88", "UAB89", "UAB8A", "UAB8B", "UAB8C", "UAB8D", "UAB8E",
      "UAB8F", "UAB90", "UAB91", "UAB92", "UAB93", "UAB94", "UAB95", "UAB96", "UAB97",
      "UAB98", "UAB99", "UAB9A", "UAB9B", "UAB9C", "UAB9D", "UAB9E", "UAB9F", "UABA0",
      "UABA1", "UABA2", "UABA3", "UABA4", "UABA5", "UABA6", "UABA7", "UABA8", "UABA9",
      "UABAA", "UABAB", "UABAC", "UABAD", "UABAE", "UABAF", "UABB0", "UABB1", "UABB2",
      "UABB3", "UABB4", "UABB5", "UABB6", "UABB7", "UABB8", "UABB9", "UABBA", "UABBB",
      "UABBC", "UABBD", "UABBE", "UABBF", "U13F8", "U13F9", "U13FA", "U13FB", "U13FC",
      "U13FD", "U0432", "U0434", "U043E", "U0441", "U0442", "U0442", "U044A", "U0463",
      "U10D0", "U10D1", "U10D2", "U10D3", "U10D4", "U10D5", "U10D6", "U10D7", "U10D8",
      "U10D9", "U10DA", "U10DB", "U10DC", "U10DD", "U10DE", "U10DF", "U10E0", "U10E1",
      "U10E2", "U10E3", "U10E4", "U10E5", "U10E6", "U10E7", "U10E8", "U10E9", "U10EA",
      "U10EB", "U10EC", "U10ED", "U10EE", "U10EF", "U10F0", "U10F1", "U10F2", "U10F3",
      "U10F4", "U10F5", "U10F6", "U10F7", "U10F8", "U10F9", "U10FA", "U10FD", "U10FE",
      "U10FF", "U1E01", "U1E03", "U1E05", "U1E07", "U1E09", "U1E0B", "U1E0D", "U1E0F",
      "U1E11", "U1E13", "U1E15", "U1E17", "U1E19", "U1E1B", "U1E1D", "U1E1F", "U1E21",
      "U1E23", "U1E25", "U1E27", "U1E29", "U1E2B", "U1E2D", "U1E2F", "U1E31", "U1E33",
      "U1E35", "U1E37", "U1E39", "U1E3B", "U1E3D", "U1E3F", "U1E41", "U1E43", "U1E45",
      "U1E47", "U1E49", "U1E4B", "U1E4D", "U1E4F", "U1E51", "U1E53", "U1E55", "U1E57",
      "U1E59", "U1E5B", "U1E5D", "U1E5F", "U1E61", "U1E63", "U1E65", "U1E67", "U1E69",
      "U1E6B", "U1E6D", "U1E6F", "U1E71", "U1E73", "U1E75", "U1E77", "U1E79", "U1E7B",
      "U1E7D", "U1E7F", "U1E81", "U1E83", "U1E85", "U1E87", "U1E89", "U1E8B", "U1E8D",
      "U1E8F", "U1E91", "U1E93", "U1E95", "U1E61", "U00DF", "U1EA1", "U1EA3", "U1EA5",
      "U1EA7", "U1EA9", "U1EAB", "U1EAD", "U1EAF", "U1EB1", "U1EB3", "U1EB5", "U1EB7",
      "U1EB9", "U1EBB", "U1EBD", "U1EBF", "U1EC1", "U1EC3", "U1EC5", "U1EC7", "U1EC9",
      "U1ECB", "U1ECD", "U1ECF", "U1ED1", "U1ED3", "U1ED5", "U1ED7", "U1ED9", "U1EDB",
      "U1EDD", "U1EDF", "U1EE1", "U1EE3", "U1EE5", "U1EE7", "U1EE9", "U1EEB", "U1EED",
      "U1EEF", "U1EF1", "U1EF3", "U1EF5", "U1EF7", "U1EF9", "U1EFB", "U1EFD", "U1EFF",
      "U1F00", "U1F01", "U1F02", "U1F03", "U1F04", "U1F05", "U1F06", "U1F07", "U1F10",
      "U1F11", "U1F12", "U1F13", "U1F14", "U1F15", "U1F20", "U1F21", "U1F22", "U1F23",
      "U1F24", "U1F25", "U1F26", "U1F27", "U1F30", "U1F31", "U1F32", "U1F33", "U1F34",
      "U1F35", "U1F36", "U1F37", "U1F40", "U1F41", "U1F42", "U1F43", "U1F44", "U1F45",
      "U1F51", "U1F53", "U1F55", "U1F57", "U1F60", "U1F61", "U1F62", "U1F63", "U1F64",
      "U1F65", "U1F66", "U1F67", "U1F80", "U1F81", "U1F82", "U1F83", "U1F84", "U1F85",
      "U1F86", "U1F87", "U1F90", "U1F91", "U1F92", "U1F93", "U1F94", "U1F95", "U1F96",
      "U1F97", "U1FA0", "U1FA1", "U1FA2", "U1FA3", "U1FA4", "U1FA5", "U1FA6", "U1FA7",
      "U1FB0", "U1FB1", "U1F70", "U1F71", "U1FB3", "U0345", "U1F72", "U1F73", "U1F74",
      "U1F75", "U1FC3", "U0390", "U1FD0", "U1FD1", "U1F76", "U1F77", "U03B0", "U1FE0",
      "U1FE1", "U1F7A", "U1F7B", "U1FE5", "U1F78", "U1F79", "U1F7C", "U1F7D", "U1FF3",
      "U03C9", "k", "U00E5", "U214E", "U2170", "U2171", "U2172", "U2173", "U2174",
      "U2175", "U2176", "U2177", "U2178", "U2179", "U217A", "U217B", "U217C", "U217D",
      "U217E", "U217F", "U2184", "U24D0", "U24D1", "U24D2", "U24D3", "U24D4", "U24D5",
      "U24D6", "U24D7", "U24D8", "U24D9", "U24DA", "U24DB", "U24DC", "U24DD", "U24DE",
      "U24DF", "U24E0", "U24E1", "U24E2", "U24E3", "U24E4", "U24E5", "U24E6", "U24E7",
      "U24E8", "U24E9", "U2C30", "U2C31", "U2C32", "U2C33", "U2C34", "U2C35", "U2C36",
      "U2C37", "U2C38", "U2C39", "U2C3A", "U2C3B", "U2C3C", "U2C3D", "U2C3E", "U2C3F",
      "U2C40", "U2C41", "U2C42", "U2C43", "U2C44", "U2C45", "U2C46", "U2C47", "U2C48",
      "U2C49", "U2C4A", "U2C4B", "U2C4C", "U2C4D", "U2C4E", "U2C4F", "U2C50", "U2C51",
      "U2C52", "U2C53", "U2C54", "U2C55", "U2C56", "U2C57", "U2C58", "U2C59", "U2C5A",
      "U2C5B", "U2C5C", "U2C5D", "U2C5E", "U2C5F", "U2C61", "U026B", "U1D7D", "U027D",
      "U2C68", "U2C6A", "U2C6C", "U0251", "U0271", "U0250", "U0252", "U2C73", "U2C76",
      "U023F", "U0240", "U2C81", "U2C83", "U2C85", "U2C87", "U2C89", "U2C8B", "U2C8D",
      "U2C8F", "U2C91", "U2C93", "U2C95", "U2C97", "U2C99", "U2C9B", "U2C9D", "U2C9F",
      "U2CA1", "U2CA3", "U2CA5", "U2CA7", "U2CA9", "U2CAB", "U2CAD", "U2CAF", "U2CB1",
      "U2CB3", "U2CB5", "U2CB7", "U2CB9", "U2CBB", "U2CBD", "U2CBF", "U2CC1", "U2CC3",
      "U2CC5", "U2CC7", "U2CC9", "U2CCB", "U2CCD", "U2CCF", "U2CD1", "U2CD3", "U2CD5",
      "U2CD7", "U2CD9", "U2CDB", "U2CDD", "U2CDF", "U2CE1", "U2CE3", "U2CEC", "U2CEE",
      "U2CF3", "UA641", "UA643", "UA645", "UA647", "UA649", "U1C88", "U1C88", "UA64D",
      "UA64F", "UA651", "UA653", "UA655", "UA657", "UA659", "UA65B", "UA65D", "UA65F",
      "UA661", "UA663", "UA665", "UA667", "UA669", "UA66B", "UA66D", "UA681", "UA683",
      "UA685", "UA687", "UA689", "UA68B", "UA68D", "UA68F", "UA691", "UA693", "UA695",
      "UA697", "UA699", "UA69B", "UA723", "UA725", "UA727", "UA729", "UA72B", "UA72D",
      "UA72F", "UA733", "UA735", "UA737", "UA739", "UA73B", "UA73D", "UA73F", "UA741",
      "UA743", "UA745", "UA747", "UA749", "UA74B", "UA74D", "UA74F", "UA751", "UA753",
      "UA755", "UA757", "UA759", "UA75B", "UA75D", "UA75F", "UA761", "UA763", "UA765",
      "UA767", "UA769", "UA76B", "UA76D", "UA76F", "UA77A", "UA77C", "U1D79", "UA77F",
      "UA781", "UA783", "UA785", "UA787", "UA78C", "U0265", "UA791", "UA793", "UA797",
      "UA799", "UA79B", "UA79D", "UA79F", "UA7A1", "UA7A3", "UA7A5", "UA7A7", "UA7A9",
      "U0266", "U025C", "U0261", "U026C", "U026A", "U029E", "U0287", "U029D", "UAB53",
      "UA7B5", "UA7B7", "UA7B9", "UA7BB", "UA7BD", "UA7BF", "UA7C1", "UA7C3", "UA794",
      "U0282", "U1D8E", "UA7C8", "UA7CA", "UA7D1", "UA7D7", "UA7D9", "UA7F6", "UFB05",
      "UFF41", "UFF42", "UFF43", "UFF44", "UFF45", "UFF46", "UFF47", "UFF48", "UFF49",
      "UFF4A", "UFF4B", "UFF4C", "UFF4D", "UFF4E", "UFF4F", "UFF50", "UFF51", "UFF52",
      "UFF53", "UFF54", "UFF55", "UFF56", "UFF57", "UFF58", "UFF59", "UFF5A", "U10428",
      "U10429", "U1042A", "U1042B", "U1042C", "U1042D", "U1042E", "U1042F", "U10430",
      "U10431", "U10432", "U10433", "U10434", "U10435", "U10436", "U10437", "U10438",
      "U10439", "U1043A", "U1043B", "U1043C", "U1043D", "U1043E", "U1043F", "U10440",
      "U10441", "U10442", "U10443", "U10444", "U10445", "U10446", "U10447", "U10448",
      "U10449", "U1044A", "U1044B", "U1044C", "U1044D", "U1044E", "U1044F", "U104D8",
      "U104D9", "U104DA", "U104DB", "U104DC", "U104DD", "U104DE", "U104DF", "U104E0",
      "U104E1", "U104E2", "U104E3", "U104E4", "U104E5", "U104E6", "U104E7", "U104E8",
      "U104E9", "U104EA", "U104EB", "U104EC", "U104ED", "U104EE", "U104EF", "U104F0",
      "U104F1", "U104F2", "U104F3", "U104F4", "U104F5", "U104F6", "U104F7", "U104F8",
      "U104F9", "U104FA", "U104FB", "U10597", "U10598", "U10599", "U1059A", "U1059B",
      "U1059C", "U1059D", "U1059E", "U1059F", "U105A0", "U105A1", "U105A3", "U105A4",
      "U105A5", "U105A6", "U105A7", "U105A8", "U105A9", "U105AA", "U105AB", "U105AC",
      "U105AD", "U105AE", "U105AF", "U105B0", "U105B1", "U105B3", "U105B4", "U105B5",
      "U105B6", "U105B7", "U105B8", "U105B9", "U105BB", "U105BC", "U10CC0", "U10CC1",
      "U10CC2", "U10CC3", "U10CC4", "U10CC5", "U10CC6", "U10CC7", "U10CC8", "U10CC9",
      "U10CCA", "U10CCB", "U10CCC", "U10CCD", "U10CCE", "U10CCF", "U10CD0", "U10CD1",
      "U10CD2", "U10CD3", "U10CD4", "U10CD5", "U10CD6", "U10CD7", "U10CD8", "U10CD9",
      "U10CDA", "U10CDB", "U10CDC", "U10CDD", "U10CDE", "U10CDF", "U10CE0", "U10CE1",
      "U10CE2", "U10CE3", "U10CE4", "U10CE5", "U10CE6", "U10CE7", "U10CE8", "U10CE9",
      "U10CEA", "U10CEB", "U10CEC", "U10CED", "U10CEE", "U10CEF", "U10CF0", "U10CF1",
      "U10CF2", "U118C0", "U118C1", "U118C2", "U118C3", "U118C4", "U118C5", "U118C6",
      "U118C7", "U118C8", "U118C9", "U118CA", "U118CB", "U118CC", "U118CD", "U118CE",
      "U118CF", "U118D0", "U118D1", "U118D2", "U118D3", "U118D4", "U118D5", "U118D6",
      "U118D7", "U118D8", "U118D9", "U118DA", "U118DB", "U118DC", "U118DD", "U118DE",
      "U118DF", "U16E60", "U16E61", "U16E62", "U16E63", "U16E64", "U16E65", "U16E66",
      "U16E67", "U16E68", "U16E69", "U16E6A", "U16E6B", "U16E6C", "U16E6D", "U16E6E",
      "U16E6F", "U16E70", "U16E71", "U16E72", "U16E73", "U16E74", "U16E75", "U16E76",
      "U16E77", "U16E78", "U16E79", "U16E7A", "U16E7B", "U16E7C", "U16E7D", "U16E7E",
      "U16E7F", "U1E922", "U1E923", "U1E924", "U1E925", "U1E926", "U1E927", "U1E928",
      "U1E929", "U1E92A", "U1E92B", "U1E92C", "U1E92D", "U1E92E", "U1E92F", "U1E930",
      "U1E931", "U1E932", "U1E933", "U1E934", "U1E935", "U1E936", "U1E937", "U1E938",
      "U1E939", "U1E93A", "U1E93B", "U1E93C", "U1E93D", "U1E93E", "U1E93F", "U1E940",
      "U1E941", "U1E942", "U1E943">>

FoldMap ==
    [c \in {CasedChars[k] : k \in 1..Len(CasedChars)} |->
        FoldedChars[CHOOSE k \in 1..Len(CasedChars) : CasedChars[k] = c]]

\* one character under re.IGNORECASE
fold(c) == IF c \in DOMAIN FoldMap THEN FoldMap[c] ELSE c

casefold(s) == [k \in 1..Len(s) |-> fold(s[k])]

\* re.search(key + r'([^"]*)"', line) for a literal key ending in a quote:
\* the leftmost key that has a closing quote behind it; group(1) is the text between
re_search_attr(key, line) ==
    LET p == find(line, key)
        rest == SubSeq(line, p + Len(key), Len(line))
        q == find(rest, <<"\"">>)
    IN  IF p = 0 \/ q = 0 THEN [found |-> FALSE, group1 |-> <<>>]
        ELSE [found |-> TRUE, group1 |-> SubSeq(rest, 1, q - 1)]

\* open(output_path, "w", encoding="utf-8"): the file holds bytes, the UTF-8 form of the
\* text written ("\n" is written as it is: os.linesep of a POSIX system).  Chars lists
\* the characters of this module, U+0001..U+007F and every "Uxxxx", Codes the code
\* point at the same index.
Chars ==
    <<"", "", "", "", "", "", "", "", "\t", "\n", "", "\f", "\r", "", "",
      "", "", "", "", "", "", "", "", "", "", "", "", "", "", "", "", " ",
      "!", "\"", "#", "$", "%", "&", "'", "(", ")", "*", "+", ",", "-", ".", "/", "0", "1",
      "2", "3", "4", "5", "6", "7", "8", "9", ":", ";", "<", "=", ">", "?", "@", "A", "B",
      "C", "D", "E", "F", "G", "H", "I", "J", "K", "L", "M", "N", "O", "P", "Q", "R", "S",
      "T", "U", "V", "W", "X", "Y", "Z", "[", "\\", "]", "^", "_", "U0060", "a", "b", "c", "d",
      "e", "f", "g", "h", "i", "j", "k", "l", "m", "n", "o", "p", "q", "r", "s", "t", "u",
      "v", "w", "x", "y", "z", "{", "|", "}", "~", "", "U0085", "U00A0", "U00B5", "U00C0",
      "U00C1", "U00C2", "U00C3", "U00C4", "U00C5", "U00C6", "U00C7", "U00C8", "U00C9",
      "U00CA", "U00CB", "U00CC", "U00CD", "U00CE", "U00CF", "U00D0", "U00D1", "U00D2",
      "U00D3", "U00D4", "U00D5", "U00D6", "U00D8", "U00D9", "U00DA", "U00DB", "U00DC",
      "U00DD", "U00DE", "U00DF", "U00E0", "U00E1", "U00E2", "U00E3", "U00E4", "U00E5",
      "U00E6", "U00E7", "U00E8", "U00E9", "U00EA", "U00EB", "U00EC", "U00ED", "U00EE",
      "U00EF", "U00F0", "U00F1", "U00F2", "U00F3", "U00F4", "U00F5", "U00F6", "U00F8",
      "U00F9", "U00FA", "U00FB", "U00FC", "U00FD", "U00FE", "U00FF", "U0100", "U0101",
      "U0102", "U0103", "U0104", "U0105", "U0106", "U0107", "U0108", "U0109", "U010A",
      "U010B", "U010C", "U010D", "U010E", "U010F", "U0110", "U0111", "U0112", "U0113",
      "U0114", "U0115", "U0116", "U0117", "U0118", "U0119", "U011A", "U011B", "U011C",
      "U011D", "U011E", "U011F", "U0120", "U0121", "U0122", "U0123", "U0124", "U0125",
      "U0126", "U0127", "U0128", "U0129", "U012A", "U012B", "U012C", "U012D", "U012E",
      "U012F", "U0130", "U0131", "U0132", "U0133", "U0134", "U0135", "U0136", "U0137",
      "U0139", "U013A", "U013B", "U013C", "U013D", "U013E", "U013F", "U0140", "U0141",
      "U0142", "U0143", "U0144", "U0145", "U0146", "U0147", "U0148", "U014A", "U014B",
      "U014C", "U014D", "U014E", "U014F", "U0150", "U0151", "U0152", "U0153", "U0154",
      "U0155", "U0156", "U0157", "U0158", "U0159", "U015A", "U015B", "U015C", "U015D",
      "U015E", "U015F", "U0160", "U0161", "U0162", "U0163", "U0164", "U0165", "U0166",
      "U0167", "U0168", "U0169", "U016A", "U016B", "U016C", "U016D", "U016E", "U016F",
      "U0170", "U0171", "U0172", "U0173", "U0174", "U0175", "U0176", "U0177", "U0178",
      "U0179", "U017A", "U017B", "U017C", "U017D", "U017E", "U017F", "U0180", "U0181",
      "U0182", "U0183", "U0184", "U0185", "U0186", "U0187", "U0188", "U0189", "U018A",
      "U018B", "U018C", "U018E", "U018F", "U0190", "U0191", "U0192", "U0193", "U0194",
      "U0195", "U0196", "U0197", "U0198", "U0199", "U019A", "U019C", "U019D", "U019E",
      "U019F", "U01A0", "U01A1", "U01A2", "U01A3", "U01A4", "U01A5", "U01A6", "U01A7",
      "U01A8", "U01A9", "U01AC", "U01AD", "U01AE", "U01AF", "U01B0", "U01B1", "U01B2",
      "U01B3", "U01B4", "U01B5", "U01B6", "U01B7", "U01B8", "U01B9", "U01BC", "U01BD",
      "U01BF", "U01C4", "U01C5", "U01C6", "U01C7", "U01C8", "U01C9", "U01CA", "U01CB",
      "U01CC", "U01CD", "U01CE", "U01CF", "U01D0", "U01D1", "U01D2", "U01D3", "U01D4",
      "U01D5", "U01D6", "U01D7", "U01D8", "U01D9", "U01DA", "U01DB", "U01DC", "U01DD",
      "U01DE", "U01DF", "U01E0", "U01E1", "U01E2", "U01E3", "U01E4", "U01E5", "U01E6",
      "U01E7", "U01E8", "U01E9", "U01EA", "U01EB", "U01EC", "U01ED", "U01EE", "U01EF",
      "U01F1", "U01F2", "U01F3", "U01F4", "U01F5", "U01F6", "U01F7", "U01F8", "U01F9",
      "U01FA", "U01FB", "U01FC", "U01FD", "U01FE", "U01FF", "U0200", "U0201", "U0202",
      "U0203", "U0204", "U0205", "U0206", "U0207", "U0208", "U0209", "U020A", "U020B",
      "U020C", "U020D", "U020E", "U020F", "U0210", "U0211", "U0212", "U0213", "U0214",
      "U0215", "U0216", "U0217", "U0218", "U0219", "U021A", "U021B", "U021C", "U021D",
      "U021E", "U021F", "U0220", "U0222", "U0223", "U0224", "U0225", "U0226", "U0227",
      "U0228", "U0229", "U022A", "U022B", "U022C", "U022D", "U022E", "U022F", "U0230",
      "U0231", "U0232", "U0233", "U023A", "U023B", "U023C", "U023D", "U023E", "U023F",
      "U0240", "U0241", "U0242", "U0243", "U0244", "U0245", "U0246", "U0247", "U0248",
      "U0249", "U024A", "U024B", "U024C", "U024D", "U024E", "U024F", "U0250", "U0251",
      "U0252", "U0253", "U0254", "U0256", "U0257", "U0259", "U025B", "U025C", "U0260",
      "U0261", "U0263", "U0265", "U0266", "U0268", "U0269", "U026A", "U026B", "U026C",
      "U026F", "U0271", "U0272", "U0275", "U027D", "U0280", "U0282", "U0283", "U0287",
      "U0288", "U0289", "U028A", "U028B", "U028C", "U0292", "U029D", "U029E", "U0345",
      "U0370", "U0371", "U0372", "U0373", "U0376", "U0377", "U037B", "U037C", "U037D",
      "U037F", "U0386", "U0388", "U0389", "U038A", "U038C", "U038E", "U038F", "U0390",
      "U0391", "U0392", "U0393", "U0394", "U0395", "U0396", "U0397", "U0398", "U0399",
      "U039A", "U039B", "U039C", "U039D", "U039E", "U039F", "U03A0", "U03A1", "U03A3",
      "U03A4", "U03A5", "U03A6", "U03A7", "U03A8", "U03A9", "U03AA", "U03AB", "U03AC",
      "U03AD", "U03AE", "U03AF", "U03B0", "U03B1", "U03B2", "U03B3", "U03B4", "U03B5",
      "U03B6", "U03B7", "U03B8", "U03B9", "U03BA", "U03BB", "U03BC", "U03BD", "U03BE",
      "U03BF", "U03C0", "U03C1", "U03C2", "U03C3", "U03C4", "U03C5", "U03C6", "U03C7",
      "U03C8", "U03C9", "U03CA", "U03CB", "U03CC", "U03CD", "U03CE", "U03CF", "U03D0",
      "U03D1", "U03D5", "U03D6", "U03D7", "U03D8", "U03D9", "U03DA", "U03DB", "U03DC",
      "U03DD", "U03DE", "U03DF", "U03E0", "U03E1", "U03E2", "U03E3", "U03E4", "U03E5",
      "U03E6", "U03E7", "U03E8", "U03E9", "U03EA", "U03EB", "U03EC", "U03ED", "U03EE",
      "U03EF", "U03F0", "U03F1", "U03F2", "U03F3", "U03F4", "U03F5", "U03F7", "U03F8",
      "U03F9", "U03FA", "U03FB", "U03FD", "U03FE", "U03FF", "U0400", "U0401", "U0402",
      "U0403", "U0404", "U0405", "U0406", "U0407", "U0408", "U0409", "U040A", "U040B",
      "U040C", "U040D", "U040E", "U040F", "U0410", "U0411", "U0412", "U0413", "U0414",
      "U0415", "U0416", "U0417", "U0418", "U0419", "U041A", "U041B", "U041C", "U041D",
      "U041E", "U041F", "U0420", "U0421", "U0422", "U0423", "U0424", "U0425", "U0426",
      "U0427", "U0428", "U0429", "U042A", "U042B", "U042C", "U042D", "U042E", "U042F",
      "U0430", "U0431", "U0432", "U0433", "U0434", "U0435", "U0436", "U0437", "U0438",
      "U0439", "U043A", "U043B", "U043C", "U043D", "U043E", "U043F", "U0440", "U0441",
      "U0442", "U0443", "U0444", "U0445", "U0446", "U0447", "U0448", "U0449", "U044A",
      "U044B", "U044C", "U044D", "U044E", "U044F", "U0450", "U0451", "U0452", "U0453",
      "U0454", "U0455", "U0456", "U0457", "U0458", "U0459", "U045A", "U045B", "U045C",
      "U045D", "U045E", "U045F", "U0460", "U0461", "U0462", "U0463", "U0464", "U0465",
      "U0466", "U0467", "U0468", "U0469", "U046A", "U046B", "U046C", "U046D", "U046E",
      "U046F", "U0470", "U0471", "U0472", "U0473", "U0474", "U0475", "U0476", "U0477",
      "U0478", "U0479", "U047A", "U047B", "U047C", "U047D", "U047E", "U047F", "U0480",
      "U0481", "U048A", "U048B", "U048C", "U048D", "U048E", "U048F", "U0490", "U0491",
      "U0492", "U0493", "U0494", "U0495", "U0496", "U0497", "U0498", "U0499", "U049A",
      "U049B", "U049C", "U049D", "U049E", "U049F", "U04A0", "U04A1", "U04A2", "U04A3",
      "U04A4", "U04A5", "U04A6", "U04A7", "U04A8", "U04A9", "U04AA", "U04AB", "U04AC",
      "U04AD", "U04AE", "U04AF", "U04B0", "U04B1", "U04B2", "U04B3", "U04B4", "U04B5",
      "U04B6", "U04B7", "U04B8", "U04B9", "U04BA", "U04BB", "U04BC", "U04BD", "U04BE",
      "U04BF", "U04C0", "U04C1", "U04C2", "U04C3", "U04C4", "U04C5", "U04C6", "U04C7",
      "U04C8", "U04C9", "U04CA", "U04CB", "U04CC", "U04CD", "U04CE", "U04CF", "U04D0",
      "U04D1", "U04D2", "U04D3", "U04D4", "U04D5", "U04D6", "U04D7", "U04D8", "U04D9",
      "U04DA", "U04DB", "U04DC", "U04DD", "U04DE", "U04DF", "U04E0", "U04E1", "U04E2",
      "U04E3", "U04E4", "U04E5", "U04E6", "U04E7", "U04E8", "U04E9", "U04EA", "U04EB",
      "U04EC", "U04ED", "U04EE", "U04EF", "U04F0", "U04F1", "U04F2", "U04F3", "U04F4",
      "U04F5", "U04F6", "U04F7", "U04F8", "U04F9", "U04FA", "U04FB", "U04FC", "U04FD",
      "U04FE", "U04FF", "U0500", "U0501", "U0502", "U0503", "U0504", "U0505", "U0506",
      "U0507", "U0508", "U0509", "U050A", "U050B", "U050C", "U050D", "U050E", "U050F",
      "U0510", "U0511", "U0512", "U0513", "U0514", "U0515", "U0516", "U0517", "U0518",
      "U0519", "U051A", "U051B", "U051C", "U051D", "U051E", "U051F", "U0520", "U0521",
      "U0522", "U0523", "U0524", "U0525", "U0526", "U0527", "U0528", "U0529", "U052A",
      "U052B", "U052C", "U052D", "U052E", "U052F", "U0531", "U0532", "U0533", "U0534",
      "U0535", "U0536", "U0537", "U0538", "U0539", "U053A", "U053B", "U053C", "U053D",
      "U053E", "U053F", "U0540", "U0541", "U0542", "U0543", "U0544", "U0545", "U0546",
      "U0547", "U0548", "U0549", "U054A", "U054B", "U054C", "U054D", "U054E", "U054F",
      "U0550", "U0551", "U0552", "U0553", "U0554", "U0555", "U0556", "U0561", "U0562",
      "U0563", "U0564", "U0565", "U0566", "U0567", "U0568", "U0569", "U056A", "U056B",
      "U056C", "U056D", "U056E", "U056F", "U0570", "U0571", "U0572", "U0573", "U0574",
      "U0575", "U0576", "U0577", "U0578", "U0579", "U057A", "U057B", "U057C", "U057D",
      "U057E", "U057F", "U0580", "U0581", "U0582", "U0583", "U0584", "U0585", "U0586",
      "U10A0", "U10A1", "U10A2", "U10A3", "U10A4", "U10A5", "U10A6", "U10A7", "U10A8",
      "U10A9", "U10AA", "U10AB", "U10AC", "U10AD", "U10AE", "U10AF", "U10B0", "U10B1",
      "U10B2", "U10B3", "U10B4", "U10B5", "U10B6", "U10B7", "U10B8", "U10B9", "U10BA",
      "U10BB", "U10BC", "U10BD", "U10BE", "U10BF", "U10C0", "U10C1", "U10C2", "U10C3",
      "U10C4", "U10C5", "U10C7", "U10CD", "U10D0", "U10D1", "U10D2", "U10D3", "U10D4",
      "U10D5", "U10D6", "U10D7", "U10D8", "U10D9", "U10DA", "U10DB", "U10DC", "U10DD",
      "U10DE", "U10DF", "U10E0", "U10E1", "U10E2", "U10E3", "U10E4", "U10E5", "U10E6",
      "U10E7", "U10E8", "U10E9", "U10EA", "U10EB", "U10EC", "U10ED", "U10EE", "U10EF",
      "U10F0", "U10F1", "U10F2", "U10F3", "U10F4", "U10F5", "U10F6", "U10F7", "U10F8",
      "U10F9", "U10FA", "U10FD", "U10FE", "U10FF", "U13A0", "U13A1", "U13A2", "U13A3",
      "U13A4", "U13A5", "U13A6", "U13A7", "U13A8", "U13A9", "U13AA", "U13AB", "U13AC",
      "U13AD", "U13AE", "U13AF", "U13B0", "U13B1", "U13B2", "U13B3", "U13B4", "U13B5",
      "U13B6", "U13B7", "U13B8", "U13B9", "U13BA", "U13BB", "U13BC", "U13BD", "U13BE",
      "U13BF", "U13C0", "U13C1", "U13C2", "U13C3", "U13C4", "U13C5", "U13C6", "U13C7",
      "U13C8", "U13C9", "U13CA", "U13CB", "U13CC", "U13CD", "U13CE", "U13CF", "U13D0",
      "U13D1", "U13D2", "U13D3", "U13D4", "U13D5", "U13D6", "U13D7", "U13D8", "U13D9",
      "U13DA", "U13DB", "U13DC", "U13DD", "U13DE", "U13DF", "U13E0", "U13E1", "U13E2",
      "U13E3", "U13E4", "U13E5", "U13E6", "U13E7", "U13E8", "U13E9", "U13EA", "U13EB",
      "U13EC", "U13ED", "U13EE", "U13EF", "U13F0", "U13F1", "U13F2", "U13F3", "U13F4",
      "U13F5", "U13F8", "U13F9", "U13FA", "U13FB", "U13FC", "U13FD", "U1680", "U1C80",
      "U1C81", "U1C82", "U1C83", "U1C84", "U1C85", "U1C86", "U1C87", "U1C88", "U1C90",
      "U1C91", "U1C92", "U1C93", "U1C94", "U1C95", "U1C96", "U1C97", "U1C98", "U1C99",
      "U1C9A", "U1C9B", "U1C9C", "U1C9D", "U1C9E", "U1C9F", "U1CA0", "U1CA1", "U1CA2",
      "U1CA3", "U1CA4", "U1CA5", "U1CA6", "U1CA7", "U1CA8", "U1CA9", "U1CAA", "U1CAB",
      "U1CAC", "U1CAD", "U1CAE", "U1CAF", "U1CB0", "U1CB1", "U1CB2", "U1CB3", "U1CB4",
      "U1CB5", "U1CB6", "U1CB7", "U1CB8", "U1CB9", "U1CBA", "U1CBD", "U1CBE", "U1CBF",
      "U1D79", "U1D7D", "U1D8E", "U1E00", "U1E01", "U1E02", "U1E03", "U1E04", "U1E05",
      "U1E06", "U1E07", "U1E08", "U1E09", "U1E0A", "U1E0B", "U1E0C", "U1E0D", "U1E0E",
      "U1E0F", "U1E10", "U1E11", "U1E12", "U1E13", "U1E14", "U1E15", "U1E16", "U1E17",
      "U1E18", "U1E19", "U1E1A", "U1E1B", "U1E1C", "U1E1D", "U1E1E", "U1E1F", "U1E20",
      "U1E21", "U1E22", "U1E23", "U1E24", "U1E25", "U1E26", "U1E27", "U1E28", "U1E29",
      "U1E2A", "U1E2B", "U1E2C", "U1E2D", "U1E2E", "U1E2F", "U1E30", "U1E31", "U1E32",
      "U1E33", "U1E34", "U1E35", "U1E36", "U1E37", "U1E38", "U1E39", "U1E3A", "U1E3B",
      "U1E3C", "U1E3D", "U1E3E", "U1E3F", "U1E40", "U1E41", "U1E42", "U1E43", "U1E44",
      "U1E45", "U1E46", "U1E47", "U1E48", "U1E49", "U1E4A", "U1E4B", "U1E4C", "U1E4D",
      "U1E4E", "U1E4F", "U1E50", "U1E51", "U1E52", "U1E53", "U1E54", "U1E55", "U1E56",
      "U1E57", "U1E58", "U1E59", "U1E5A", "U1E5B", "U1E5C", "U1E5D", "U1E5E", "U1E5F",
      "U1E60", "U1E61", "U1E62", "U1E63", "U1E64", "U1E65", "U1E66", "U1E67", "U1E68",
      "U1E69", "U1E6A", "U1E6B", "U1E6C", "U1E6D", "U1E6E", "U1E6F", "U1E70", "U1E71",
      "U1E72", "U1E73", "U1E74", "U1E75", "U1E76", "U1E77", "U1E78", "U1E79", "U1E7A",
      "U1E7B", "U1E7C", "U1E7D", "U1E7E", "U1E7F", "U1E80", "U1E81", "U1E82", "U1E83",
      "U1E84", "U1E85", "U1E86", "U1E87", "U1E88", "U1E89", "U1E8A", "U1E8B", "U1E8C",
      "U1E8D", "U1E8E", "U1E8F", "U1E90", "U1E91", "U1E92", "U1E93", "U1E94", "U1E95",
      "U1E9B", "U1E9E", "U1EA0", "U1EA1", "U1EA2", "U1EA3", "U1EA4", "U1EA5", "U1EA6",
      "U1EA7", "U1EA8", "U1EA9", "U1EAA", "U1EAB", "U1EAC", "U1EAD", "U1EAE", "U1EAF",
      "U1EB0", "U1EB1", "U1EB2", "U1EB3", "U1EB4", "U1EB5", "U1EB6", "U1EB7", "U1EB8",
      "U1EB9", "U1EBA", "U1EBB", "U1EBC", "U1EBD", "U1EBE", "U1EBF", "U1EC0", "U1EC1",
      "U1EC2", "U1EC3", "U1EC4", "U1EC5", "U1EC6", "U1EC7", "U1EC8", "U1EC9", "U1ECA",
      "U1ECB", "U1ECC", "U1ECD", "U1ECE", "U1ECF", "U1ED0", "U1ED1", "U1ED2", "U1ED3",
      "U1ED4", "U1ED5", "U1ED6", "U1ED7", "U1ED8", "U1ED9", "U1EDA", "U1EDB", "U1EDC",
      "U1EDD", "U1EDE", "U1EDF", "U1EE0", "U1EE1", "U1EE2", "U1EE3", "U1EE4", "U1EE5",
      "U1EE6", "U1EE7", "U1EE8", "U1EE9", "U1EEA", "U1EEB", "U1EEC", "U1EED", "U1EEE",
      "U1EEF", "U1EF0", "U1EF1", "U1EF2", "U1EF3", "U1EF4", "U1EF5", "U1EF6", "U1EF7",
      "U1EF8", "U1EF9", "U1EFA", "U1EFB", "U1EFC", "U1EFD", "U1EFE", "U1EFF", "U1F00",
      "U1F01", "U1F02", "U1F03", "U1F04", "U1F05", "U1F06", "U1F07", "U1F08", "U1F09",
      "U1F0A", "U1F0B", "U1F0C", "U1F0D", "U1F0E", "U1F0F", "U1F10", "U1F11", "U1F12",
      "U1F13", "U1F14", "U1F15", "U1F18", "U1F19", "U1F1A", "U1F1B", "U1F1C", "U1F1D",
      "U1F20", "U1F21", "U1F22", "U1F23", "U1F24", "U1F25", "U1F26", "U1F27", "U1F28",
      "U1F29", "U1F2A", "U1F2B", "U1F2C", "U1F2D", "U1F2E", "U1F2F", "U1F30", "U1F31",
      "U1F32", "U1F33", "U1F34", "U1F35", "U1F36", "U1F37", "U1F38", "U1F39", "U1F3A",
      "U1F3B", "U1F3C", "U1F3D", "U1F3E", "U1F3F", "U1F40", "U1F41", "U1F42", "U1F43",
      "U1F44", "U1F45", "U1F48", "U1F49", "U1F4A", "U1F4B", "U1F4C", "U1F4D", "U1F51",
      "U1F53", "U1F55", "U1F57", "U1F59", "U1F5B", "U1F5D", "U1F5F", "U1F60", "U1F61",
      "U1F62", "U1F63", "U1F64", "U1F65", "U1F66", "U1F67", "U1F68", "U1F69", "U1F6A",
      "U1F6B", "U1F6C", "U1F6D", "U1F6E", "U1F6F", "U1F70", "U1F71", "U1F72", "U1F73",
      "U1F74", "U1F75", "U1F76", "U1F77", "U1F78", "U1F79", "U1F7A", "U1F7B", "U1F7C",
      "U1F7D", "U1F80", "U1F81", "U1F82", "U1F83", "U1F84", "U1F85", "U1F86", "U1F87",
      "U1F88", "U1F89", "U1F8A", "U1F8B", "U1F8C", "U1F8D", "U1F8E", "U1F8F", "U1F90",
      "U1F91", "U1F92", "U1F93", "U1F94", "U1F95", "U1F96", "U1F97", "U1F98", "U1F99",
      "U1F9A", "U1F9B", "U1F9C", "U1F9D", "U1F9E", "U1F9F", "U1FA0", "U1FA1", "U1FA2",
      "U1FA3", "U1FA4", "U1FA5", "U1FA6", "U1FA7", "U1FA8", "U1FA9", "U1FAA", "U1FAB",
      "U1FAC", "U1FAD", "U1FAE", "U1FAF", "U1FB0", "U1FB1", "U1FB3", "U1FB8", "U1FB9",
      "U1FBA", "U1FBB", "U1FBC", "U1FBE", "U1FC3", "U1FC8", "U1FC9", "U1FCA", "U1FCB",
      "U1FCC", "U1FD0", "U1FD1", "U1FD3", "U1FD8", "U1FD9", "U1FDA", "U1FDB", "U1FE0",
      "U1FE1", "U1FE3", "U1FE5", "U1FE8", "U1FE9", "U1FEA", "U1FEB", "U1FEC", "U1FF3",
      "U1FF8", "U1FF9", "U1FFA", "U1FFB", "U1FFC", "U2000", "U2001", "U2002", "U2003",
      "U2004", "U2005", "U2006", "U2007", "U2008", "U2009", "U200A", "U2028", "U2029",
      "U202F", "U205F", "U2126", "U212A", "U212B", "U2132", "U214E", "U2160", "U2161",
      "U2162", "U2163", "U2164", "U2165", "U2166", "U2167", "U2168", "U2169", "U216A",
      "U216B", "U216C", "U216D", "U216E", "U216F", "U2170", "U2171", "U2172", "U2173",
      "U2174", "U2175", "U2176", "U2177", "U2178", "U2179", "U217A", "U217B", "U217C",
      "U217D", "U217E", "U217F", "U2183", "U2184", "U24B6", "U24B7", "U24B8", "U24B9",
      "U24BA", "U24BB", "U24BC", "U24BD", "U24BE", "U24BF", "U24C0", "U24C1", "U24C2",
      "U24C3", "U24C4", "U24C5", "U24C6", "U24C7", "U24C8", "U24C9", "U24CA", "U24CB",
      "U24CC", "U24CD", "U24CE", "U24CF", "U24D0", "U24D1", "U24D2", "U24D3", "U24D4",
      "U24D5", "U24D6", "U24D7", "U24D8", "U24D9", "U24DA", "U24DB", "U24DC", "U24DD",
      "U24DE", "U24DF", "U24E0", "U24E1", "U24E2", "U24E3", "U24E4", "U24E5", "U24E6",
      "U24E7", "U24E8", "U24E9", "U2C00", "U2C01", "U2C02", "U2C03", "U2C04", "U2C05",
      "U2C06", "U2C07", "U2C08", "U2C09", "U2C0A", "U2C0B", "U2C0C", "U2C0D", "U2C0E",
      "U2C0F", "U2C10", "U2C11", "U2C12", "U2C13", "U2C14", "U2C15", "U2C16", "U2C17",
      "U2C18", "U2C19", "U2C1A", "U2C1B", "U2C1C", "U2C1D", "U2C1E", "U2C1F", "U2C20",
      "U2C21", "U2C22", "U2C23", "U2C24", "U2C25", "U2C26", "U2C27", "U2C28", "U2C29",
      "U2C2A", "U2C2B", "U2C2C", "U2C2D", "U2C2E", "U2C2F", "U2C30", "U2C31", "U2C32",
      "U2C33", "U2C34", "U2C35", "U2C36", "U2C37", "U2C38", "U2C39", "U2C3A", "U2C3B",
      "U2C3C", "U2C3D", "U2C3E", "U2C3F", "U2C40", "U2C41", "U2C42", "U2C43", "U2C44",
      "U2C45", "U2C46", "U2C47", "U2C48", "U2C49", "U2C4A", "U2C4B", "U2C4C", "U2C4D",
      "U2C4E", "U2C4F", "U2C50", "U2C51", "U2C52", "U2C53", "U2C54", "U2C55", "U2C56",
      "U2C57", "U2C58", "U2C59", "U2C5A", "U2C5B", "U2C5C", "U2C5D", "U2C5E", "U2C5F",
      "U2C60", "U2C61", "U2C62", "U2C63", "U2C64", "U2C65", "U2C66", "U2C67", "U2C68",
      "U2C69", "U2C6A", "U2C6B", "U2C6C", "U2C6D", "U2C6E", "U2C6F", "U2C70", "U2C72",
      "U2C73", "U2C75", "U2C76", "U2C7E", "U2C7F", "U2C80", "U2C81", "U2C82", "U2C83",
      "U2C84", "U2C85", "U2C86", "U2C87", "U2C88", "U2C89", "U2C8A", "U2C8B", "U2C8C",
      "U2C8D", "U2C8E", "U2C8F", "U2C90", "U2C91", "U2C92", "U2C93", "U2C94", "U2C95",
      "U2C96", "U2C97", "U2C98", "U2C99", "U2C9A", "U2C9B", "U2C9C", "U2C9D", "U2C9E",
      "U2C9F", "U2CA0", "U2CA1", "U2CA2", "U2CA3", "U2CA4", "U2CA5", "U2CA6", "U2CA7",
      "U2CA8", "U2CA9", "U2CAA", "U2CAB", "U2CAC", "U2CAD", "U2CAE", "U2CAF", "U2CB0",
      "U2CB1", "U2CB2", "U2CB3", "U2CB4", "U2CB5", "U2CB6", "U2CB7", "U2CB8", "U2CB9",
      "U2CBA", "U2CBB", "U2CBC", "U2CBD", "U2CBE", "U2CBF", "U2CC0", "U2CC1", "U2CC2",
      "U2CC3", "U2CC4", "U2CC5", "U2CC6", "U2CC7", "U2CC8", "U2CC9", "U2CCA", "U2CCB",
      "U2CCC", "U2CCD", "U2CCE", "U2CCF", "U2CD0", "U2CD1", "U2CD2", "U2CD3", "U2CD4",
      "U2CD5", "U2CD6", "U2CD7", "U2CD8", "U2CD9", "U2CDA", "U2CDB", "U2CDC", "U2CDD",
      "U2CDE", "U2CDF", "U2CE0", "U2CE1", "U2CE2", "U2CE3", "U2CEB", "U2CEC", "U2CED",
      "U2CEE", "U2CF2", "U2CF3", "U2D00", "U2D01", "U2D02", "U2D03", "U2D04", "U2D05",
      "U2D06", "U2D07", "U2D08", "U2D09", "U2D0A", "U2D0B", "U2D0C", "U2D0D", "U2D0E",
      "U2D0F", "U2D10", "U2D11", "U2D12", "U2D13", "U2D14", "U2D15", "U2D16", "U2D17",
      "U2D18", "U2D19", "U2D1A", "U2D1B", "U2D1C", "U2D1D", "U2D1E", "U2D1F", "U2D20",
      "U2D21", "U2D22", "U2D23", "U2D24", "U2D25", "U2D27", "U2D2D", "U3000", "U5176",
      "U5206", "U5B83", "U672A", "U7EC4", "UA640", "UA641", "UA642", "UA643", "UA644",
      "UA645", "UA646", "UA647", "UA648", "UA649", "UA64A", "UA64B", "UA64C", "UA64D",
      "UA64E", "UA64F", "UA650", "UA651", "UA652", "UA653", "UA654", "UA655", "UA656",
      "UA657", "UA658", "UA659", "UA65A", "UA65B", "UA65C", "UA65D", "UA65E", "UA65F",
      "UA660", "UA661", "UA662", "UA663", "UA664", "UA665", "UA666", "UA667", "UA668",
      "UA669", "UA66A", "UA66B", "UA66C", "UA66D", "UA680", "UA681", "UA682", "UA683",
      "UA684", "UA685", "UA686", "UA687", "UA688", "UA689", "UA68A", "UA68B", "UA68C",
      "UA68D", "UA68E", "UA68F", "UA690", "UA691", "UA692", "UA693", "UA694", "UA695",
      "UA696", "UA697", "UA698", "UA699", "UA69A", "UA69B", "UA722", "UA723", "UA724",
      "UA725", "UA726", "UA727", "UA728", "UA729", "UA72A", "UA72B", "UA72C", "UA72D",
      "UA72E", "UA72F", "UA732", "UA733", "UA734", "UA735", "UA736", "UA737", "UA738",
      "UA739", "UA73A", "UA73B", "UA73C", "UA73D", "UA73E", "UA73F", "UA740", "UA741",
      "UA742", "UA743", "UA744", "UA745", "UA746", "UA747", "UA748", "UA749", "UA74A",
      "UA74B", "UA74C", "UA74D", "UA74E", "UA74F", "UA750", "UA751", "UA752", "UA753",
      "UA754", "UA755", "UA756", "UA757", "UA758", "UA759", "UA75A", "UA75B", "UA75C",
      "UA75D", "UA75E", "UA75F", "UA760", "UA761", "UA762", "UA763", "UA764", "UA765",
      "UA766", "UA767", "UA768", "UA769", "UA76A", "UA76B", "UA76C", "UA76D", "UA76E",
      "UA76F", "UA779", "UA77A", "UA77B", "UA77C", "UA77D", "UA77E", "UA77F", "UA780",
      "UA781", "UA782", "UA783", "UA784", "UA785", "UA786", "UA787", "UA78B", "UA78C",
      "UA78D", "UA790", "UA791", "UA792", "UA793", "UA794", "UA796", "UA797", "UA798",
      "UA799", "UA79A", "UA79B", "UA79C", "UA79D", "UA79E", "UA79F", "UA7A0", "UA7A1",
      "UA7A2", "UA7A3", "UA7A4", "UA7A5", "UA7A6", "UA7A7", "UA7A8", "UA7A9", "UA7AA",
      "UA7AB", "UA7AC", "UA7AD", "UA7AE", "UA7B0", "UA7B1", "UA7B2", "UA7B3", "UA7B4",
      "UA7B5", "UA7B6", "UA7B7", "UA7B8", "UA7B9", "UA7BA", "UA7BB", "UA7BC", "UA7BD",
      "UA7BE", "UA7BF", "UA7C0", "UA7C1", "UA7C2", "UA7C3", "UA7C4", "UA7C5", "UA7C6",
      "UA7C7", "UA7C8", "UA7C9", "UA7CA", "UA7D0", "UA7D1", "UA7D6", "UA7D7", "UA7D8",
      "UA7D9", "UA7F5", "UA7F6", "UAB53", "UAB70", "UAB71", "UAB72", "UAB73", "UAB74",
      "UAB75", "UAB76", "UAB77", "UAB78", "UAB79", "UAB7A", "UAB7B", "UAB7C", "UAB7D",
      "UAB7E", "UAB7F", "UAB80", "UAB81", "UAB82", "UAB83", "UAB84", "UAB85", "UAB86",
      "UAB87", "UAB88", "UAB89", "UAB8A", "UAB8B", "UAB8C", "UAB8D", "UAB8E", "UAB8F",
      "UAB90", "UAB91", "UAB92", "UAB93", "UAB94", "UAB95", "UAB96", "UAB97", "UAB98",
      "UAB99", "UAB9A", "UAB9B", "UAB9C", "UAB9D", "UAB9E", "UAB9F", "UABA0", "UABA1",
      "UABA2", "UABA3", "UABA4", "UABA5", "UABA6", "UABA7", "UABA8", "UABA9", "UABAA",
      "UABAB", "UABAC", "UABAD", "UABAE", "UABAF", "UABB0", "UABB1", "UABB2", "UABB3",
      "UABB4", "UABB5", "UABB6", "UABB7", "UABB8", "UABB9", "UABBA", "UABBB", "UABBC",
      "UABBD", "UABBE", "UABBF", "UFB05", "UFB06", "UFF21", "UFF22", "UFF23", "UFF24",
      "UFF25", "UFF26", "UFF27", "UFF28", "UFF29", "UFF2A", "UFF2B", "UFF2C", "UFF2D",
      "UFF2E", "UFF2F", "UFF30", "UFF31", "UFF32", "UFF33", "UFF34", "UFF35", "UFF36",
      "UFF37", "UFF38", "UFF39", "UFF3A", "UFF41", "UFF42", "UFF43", "UFF44", "UFF45",
      "UFF46", "UFF47", "UFF48", "UFF49", "UFF4A", "UFF4B", "UFF4C", "UFF4D", "UFF4E",
      "UFF4F", "UFF50", "UFF51", "UFF52", "UFF53", "UFF54", "UFF55", "UFF56", "UFF57",
      "UFF58", "UFF59", "UFF5A", "U10400", "U10401", "U10402", "U10403", "U10404", "U10405",
      "U10406", "U10407", "U10408", "U10409", "U1040A", "U1040B", "U1040C", "U1040D",
      "U1040E", "U1040F", "U10410", "U10411", "U10412", "U10413", "U10414", "U10415",
      "U10416", "U10417", "U10418", "U10419", "U1041A", "U1041B", "U1041C", "U1041D",
      "U1041E", "U1041F", "U10420", "U10421", "U10422", "U10423", "U10424", "U10425",
      "U10426", "U10427", "U10428", "U10429", "U1042A", "U1042B", "U1042C", "U1042D",
      "U1042E", "U1042F", "U10430", "U10431", "U10432", "U10433", "U10434", "U10435",
      "U10436", "U10437", "U10438", "U10439", "U1043A", "U1043B", "U1043C", "U1043D",
      "U1043E", "U1043F", "U10440", "U10441", "U10442", "U10443", "U10444", "U10445",
      "U10446", "U10447", "U10448", "U10449", "U1044A", "U1044B", "U1044C", "U1044D",
      "U1044E", "U1044F", "U104B0", "U104B1", "U104B2", "U104B3", "U104B4", "U104B5",
      "U104B6", "U104B7", "U104B8", "U104B9", "U104BA", "U104BB", "U104BC", "U104BD",
      "U104BE", "U104BF", "U104C0", "U104C1", "U104C2", "U104C3", "U104C4", "U104C5",
      "U104C6", "U104C7", "U104C8", "U104C9", "U104CA", "U104CB", "U104CC", "U104CD",
      "U104CE", "U104CF", "U104D0", "U104D1", "U104D2", "U104D3", "U104D8", "U104D9",
      "U104DA", "U104DB", "U104DC", "U104DD", "U104DE", "U104DF", "U104E0", "U104E1",
      "U104E2", "U104E3", "U104E4", "U104E5", "U104E6", "U104E7", "U104E8", "U104E9",
      "U104EA", "U104EB", "U104EC", "U104ED", "U104EE", "U104EF", "U104F0", "U104F1",
      "U104F2", "U104F3", "U104F4", "U104F5", "U104F6", "U104F7", "U104F8", "U104F9",
      "U104FA", "U104FB", "U10570", "U10571", "U10572", "U10573", "U10574", "U10575",
      "U10576", "U10577", "U10578", "U10579", "U1057A", "U1057C", "U1057D", "U1057E",
      "U1057F", "U10580", "U10581", "U10582", "U10583", "U10584", "U10585", "U10586",
      "U10587", "U10588", "U10589", "U1058A", "U1058C", "U1058D", "U1058E", "U1058F",
      "U10590", "U10591", "U10592", "U10594", "U10595", "U10597", "U10598", "U10599",
      "U1059A", "U1059B", "U1059C", "U1059D", "U1059E", "U1059F", "U105A0", "U105A1",
      "U105A3", "U105A4", "U105A5", "U105A6", "U105A7", "U105A8", "U105A9", "U105AA",
      "U105AB", "U105AC", "U105AD", "U105AE", "U105AF", "U105B0", "U105B1", "U105B3",
      "U105B4", "U105B5", "U105B6", "U105B7", "U105B8", "U105B9", "U105BB", "U105BC",
      "U10C80", "U10C81", "U10C82", "U10C83", "U10C84", "U10C85", "U10C86", "U10C87",
      "U10C88", "U10C89", "U10C8A", "U10C8B", "U10C8C", "U10C8D", "U10C8E", "U10C8F",
      "U10C90", "U10C91", "U10C92", "U10C93", "U10C94", "U10C95", "U10C96", "U10C97",
      "U10C98", "U10C99", "U10C9A", "U10C9B", "U10C9C", "U10C9D", "U10C9E", "U10C9F",
      "U10CA0", "U10CA1", "U10CA2", "U10CA3", "U10CA4", "U10CA5", "U10CA6", "U10CA7",
      "U10CA8", "U10CA9", "U10CAA", "U10CAB", "U10CAC", "U10CAD", "U10CAE", "U10CAF",
      "U10CB0", "U10CB1", "U10CB2", "U10CC0", "U10CC1", "U10CC2", "U10CC3", "U10CC4",
      "U10CC5", "U10CC6", "U10CC7", "U10CC8", "U10CC9", "U10CCA", "U10CCB", "U10CCC",
      "U10CCD", "U10CCE", "U10CCF", "U10CD0", "U10CD1", "U10CD2", "U10CD3", "U10CD4",
      "U10CD5", "U10CD6", "U10CD7", "U10CD8", "U10CD9", "U10CDA", "U10CDB", "U10CDC",
      "U10CDD", "U10CDE", "U10CDF", "U10CE0", "U10CE1", "U10CE2", "U10CE3", "U10CE4",
      "U10CE5", "U10CE6", "U10CE7", "U10CE8", "U10CE9", "U10CEA", "U10CEB", "U10CEC",
      "U10CED", "U10CEE", "U10CEF", "U10CF0", "U10CF1", "U10CF2", "U118A0", "U118A1",
      "U118A2", "U118A3", "U118A4", "U118A5", "U118A6", "U118A7", "U118A8", "U118A9",
      "U118AA", "U118AB", "U118AC", "U118AD", "U118AE", "U118AF", "U118B0", "U118B1",
      "U118B2", "U118B3", "U118B4", "U118B5", "U118B6", "U118B7", "U118B8", "U118B9",
      "U118BA", "U118BB", "U118BC", "U118BD", "U118BE", "U118BF", "U118C0", "U118C1",
      "U118C2", "U118C3", "U118C4", "U118C5", "U118C6", "U118C7", "U118C8", "U118C9",
      "U118CA", "U118CB", "U118CC", "U118CD", "U118CE", "U118CF", "U118D0", "U118D1",
      "U118D2", "U118D3", "U118D4", "U118D5", "U118D6", "U118D7", "U118D8", "U118D9",
      "U118DA", "U118DB", "U118DC", "U118DD", "U118DE", "U118DF", "U16E40", "U16E41",
      "U16E42", "U16E43", "U16E44", "U16E45", "U16E46", "U16E47", "U16E48", "U16E49",
      "U16E4A", "U16E4B", "U16E4C", "U16E4D", "U16E4E", "U16E4F", "U16E50", "U16E51",
      "U16E52", "U16E53", "U16E54", "U16E55", "U16E56", "U16E57", "U16E58", "U16E59",
      "U16E5A", "U16E5B", "U16E5C", "U16E5D", "U16E5E", "U16E5F", "U16E60", "U16E61",
      "U16E62", "U16E63", "U16E64", "U16E65", "U16E66", "U16E67", "U16E68", "U16E69",
      "U16E6A", "U16E6B", "U16E6C", "U16E6D", "U16E6E", "U16E6F", "U16E70", "U16E71",
      "U16E72", "U16E73", "U16E74", "U16E75", "U16E76", "U16E77", "U16E78", "U16E79",
      "U16E7A", "U16E7B", "U16E7C", "U16E7D", "U16E7E", "U16E7F", "U1E900", "U1E901",
      "U1E902", "U1E903", "U1E904", "U1E905", "U1E906", "U1E907", "U1E908", "U1E909",
      "U1E90A", "U1E90B", "U1E90C", "U1E90D", "U1E90E", "U1E90F", "U1E910", "U1E911",
      "U1E912", "U1E913", "U1E914", "U1E915", "U1E916", "U1E917", "U1E918", "U1E919",
      "U1E91A", "U1E91B", "U1E91C", "U1E91D", "U1E91E", "U1E91F", "U1E920", "U1E921",
      "U1E922", "U1E923", "U1E924", "U1E925", "U1E926", "U1E927", "U1E928", "U1E929",
      "U1E92A", "U1E92B", "U1E92C", "U1E92D", "U1E92E", "U1E92F", "U1E930", "U1E931",
      "U1E932", "U1E933", "U1E934", "U1E935", "U1E936", "U1E937", "U1E938", "U1E939",
      "U1E93A", "U1E93B", "U1E93C", "U1E93D", "U1E93E", "U1E93F", "U1E940", "U1E941",
      "U1E942", "U1E943">>

Codes ==
    <<1, 2, 3, 4, 5, 6, 7, 8, 9, 10, 11, 12, 13, 14, 15, 16, 17, 18, 19, 20, 21, 22, 23,
      24, 25, 26, 27, 28, 29, 30, 31, 32, 33, 34, 35, 36, 37, 38, 39, 40, 41, 42, 43, 44,
      45, 46, 47, 48, 49, 50, 51, 52, 53, 54, 55, 56, 57, 58, 59, 60, 61, 62, 63, 64, 65,
      66, 67, 68, 69, 70, 71, 72, 73, 74, 75, 76, 77, 78, 79, 80, 81, 82, 83, 84, 85, 86,
      87, 88, 89, 90, 91, 92, 93, 94, 95, 96, 97, 98, 99, 100, 101, 102, 103, 104, 105, 106,
      107, 108, 109, 110, 111, 112, 113, 114, 115, 116, 117, 118, 119, 120, 121, 122, 123,
      124, 125, 126, 127, 133, 160, 181, 192, 193, 194, 195, 196, 197, 198, 199, 200, 201,
      202, 203, 204, 205, 206, 207, 208, 209, 210, 211, 212, 213, 214, 216, 217, 218, 219,
      220, 221, 222, 223, 224, 225, 226, 227, 228, 229, 230, 231, 232, 233, 234, 235, 236,
      237, 238, 239, 240, 241, 242, 243, 244, 245, 246, 248, 249, 250, 251, 252, 253, 254,
      255, 256, 257, 258, 259, 260, 261, 262, 263, 264, 265, 266, 267, 268, 269, 270, 271,
      272, 273, 274, 275, 276, 277, 278, 279, 280, 281, 282, 283, 284, 285, 286, 287, 288,
      289, 290, 291, 292, 293, 294, 295, 296, 297, 298, 299, 300, 301, 302, 303, 304, 305,
      306, 307, 308, 309, 310, 311, 313, 314, 315, 316, 317, 318, 319, 320, 321, 322, 323,
      324, 325, 326, 327, 328, 330, 331, 332, 333, 334, 335, 336, 337, 338, 339, 340, 341,
      342, 343, 344, 345, 346, 347, 348, 349, 350, 351, 352, 353, 354, 355, 356, 357, 358,
      359, 360, 361, 362, 363, 364, 365, 366, 367, 368, 369, 370, 371, 372, 373, 374, 375,
      376, 377, 378, 379, 380, 381, 382, 383, 384, 385, 386, 387, 388, 389, 390, 391, 392,
      393, 394, 395, 396, 398, 399, 400, 401, 402, 403, 404, 405, 406, 407, 408, 409, 410,
      412, 413, 414, 415, 416, 417, 418, 419, 420, 421, 422, 423, 424, 425, 428, 429, 430,
      431, 432, 433, 434, 435, 436, 437, 438, 439, 440, 441, 444, 445, 447, 452, 453, 454,
      455, 456, 457, 458, 459, 460, 461, 462, 463, 464, 465, 466, 467, 468, 469, 470, 471,
      472, 473, 474, 475, 476, 477, 478, 479, 480, 481, 482, 483, 484, 485, 486, 487, 488,
      489, 490, 491, 492, 493, 494, 495, 497, 498, 499, 500, 501, 502, 503, 504, 505, 506,
      507, 508, 509, 510, 511, 512, 513, 514, 515, 516, 517, 518, 519, 520, 521, 522, 523,
      524, 525, 526, 527, 528, 529, 530, 531, 532, 533, 534, 535, 536, 537, 538, 539, 540,
      541, 542, 543, 544, 546, 547, 548, 549, 550, 551, 552, 553, 554, 555, 556, 557, 558,
      559, 560, 561, 562, 563, 570, 571, 572, 573, 574, 575, 576, 577, 578, 579, 580, 581,
      582, 583, 584, 585, 586, 587, 588, 589, 590, 591, 592, 593, 594, 595, 596, 598, 599,
      601, 603, 604, 608, 609, 611, 613, 614, 616, 617, 618, 619, 620, 623, 625, 626, 629,
      637, 640, 642, 643, 647, 648, 649, 650, 651, 652, 658, 669, 670, 837, 880, 881, 882,
      883, 886, 887, 891, 892, 893, 895, 902, 904, 905, 906, 908, 910, 911, 912, 913, 914,
      915, 916, 917, 918, 919, 920, 921, 922, 923, 924, 925, 926, 927, 928, 929, 931, 932,
      933, 934, 935, 936, 937, 938, 939, 940, 941, 942, 943, 944, 945, 946, 947, 948, 949,
      950, 951, 952, 953, 954, 955, 956, 957, 958, 959, 960, 961, 962, 963, 964, 965, 966,
      967, 968, 969, 970, 971, 972, 973, 974, 975, 976, 977, 981, 982, 983, 984, 985, 986,
      987, 988, 989, 990, 991, 992, 993, 994, 995, 996, 997, 998, 999, 1000, 1001, 1002,
      1003, 1004, 1005, 1006, 1007, 1008, 1009, 1010, 1011, 1012, 1013, 1015, 1016, 1017,
      1018, 1019, 1021, 1022, 1023, 1024, 1025, 1026, 1027, 1028, 1029, 1030, 1031, 1032,
      1033, 1034, 1035, 1036, 1037, 1038, 1039, 1040, 1041, 1042, 1043, 1044, 1045, 1046,
      1047, 1048, 1049, 1050, 1051, 1052, 1053, 1054, 1055, 1056, 1057, 1058, 1059, 1060,
      1061, 1062, 1063, 1064, 1065, 1066, 1067, 1068, 1069, 1070, 1071, 1072, 1073, 1074,
      1075, 1076, 1077, 1078, 1079, 1080, 1081, 1082, 1083, 1084, 1085, 1086, 1087, 1088,
      1089, 1090, 1091, 1092, 1093, 1094, 1095, 1096, 1097, 1098, 1099, 1100, 1101, 1102,
      1103, 1104, 1105, 1106, 1107, 1108, 1109, 1110, 1111, 1112, 1113, 1114, 1115, 1116,
      1117, 1118, 1119, 1120, 1121, 1122, 1123, 1124, 1125, 1126, 1127, 1128, 1129, 1130,
      1131, 1132, 1133, 1134, 1135, 1136, 1137, 1138, 1139, 1140, 1141, 1142, 1143, 1144,
      1145, 1146, 1147, 1148, 1149, 1150, 1151, 1152, 1153, 1162, 1163, 1164, 1165, 1166,
      1167, 1168, 1169, 1170, 1171, 1172, 1173, 1174, 1175, 1176, 1177, 1178, 1179, 1180,
      1181, 1182, 1183, 1184, 1185, 1186, 1187, 1188, 1189, 1190, 1191, 1192, 1193, 1194,
      1195, 1196, 1197, 1198, 1199, 1200, 1201, 1202, 1203, 1204, 1205, 1206, 1207, 1208,
      1209, 1210, 1211, 1212, 1213, 1214, 1215, 1216, 1217, 1218, 1219, 1220, 1221, 1222,
      1223, 1224, 1225, 1226, 1227, 1228, 1229, 1230, 1231, 1232, 1233, 1234, 1235, 1236,
      1237, 1238, 1239, 1240, 1241, 1242, 1243, 1244, 1245, 1246, 1247, 1248, 1249, 1250,
      1251, 1252, 1253, 1254, 1255, 1256, 1257, 1258, 1259, 1260, 1261, 1262, 1263, 1264,
      1265, 1266, 1267, 1268, 1269, 1270, 1271, 1272, 1273, 1274, 1275, 1276, 1277, 1278,
      1279, 1280, 1281, 1282, 1283, 1284, 1285, 1286, 1287, 1288, 1289, 1290, 1291, 1292,
      1293, 1294, 1295, 1296, 1297, 1298, 1299, 1300, 1301, 1302, 1303, 1304, 1305, 1306,
      1307, 1308, 1309, 1310, 1311, 1312, 1313, 1314, 1315, 1316, 1317, 1318, 1319, 1320,
      1321, 1322, 1323, 1324, 1325, 1326, 1327, 1329, 1330, 1331, 1332, 1333, 1334, 1335,
      1336, 1337, 1338, 1339, 1340, 1341, 1342, 1343, 1344, 1345, 1346, 1347, 1348, 1349,
      1350, 1351, 1352, 1353, 1354, 1355, 1356, 1357, 1358, 1359, 1360, 1361, 1362, 1363,
      1364, 1365, 1366, 1377, 1378, 1379, 1380, 1381, 1382, 1383, 1384, 1385, 1386, 1387,
      1388, 1389, 1390, 1391, 1392, 1393, 1394, 1395, 1396, 1397, 1398, 1399, 1400, 1401,
      1402, 1403, 1404, 1405, 1406, 1407, 1408, 1409, 1410, 1411, 1412, 1413, 1414, 4256,
      4257, 4258, 4259, 4260, 4261, 4262, 4263, 4264, 4265, 4266, 4267, 4268, 4269, 4270,
      4271, 4272, 4273, 4274, 4275, 4276, 4277, 4278, 4279, 4280, 4281, 4282, 4283, 4284,
      4285, 4286, 4287, 4288, 4289, 4290, 4291, 4292, 4293, 4295, 4301, 4304, 4305, 4306,
      4307, 4308, 4309, 4310, 4311, 4312, 4313, 4314, 4315, 4316, 4317, 4318, 4319, 4320,
      4321, 4322, 4323, 4324, 4325, 4326, 4327, 4328, 4329, 4330, 4331, 4332, 4333, 4334,
      4335, 4336, 4337, 4338, 4339, 4340, 4341, 4342, 4343, 4344, 4345, 4346, 4349, 4350,
      4351, 5024, 5025, 5026, 5027, 5028, 5029, 5030, 5031, 5032, 5033, 5034, 5035, 5036,
      5037, 5038, 5039, 5040, 5041, 5042, 5043, 5044, 5045, 5046, 5047, 5048, 5049, 5050,
      5051, 5052, 5053, 5054, 5055, 5056, 5057, 5058, 5059, 5060, 5061, 5062, 5063, 5064,
      5065, 5066, 5067, 5068, 5069, 5070, 5071, 5072, 5073, 5074, 5075, 5076, 5077, 5078,
      5079, 5080, 5081, 5082, 5083, 5084, 5085, 5086, 5087, 5088, 5089, 5090, 5091, 5092,
      5093, 5094, 5095, 5096, 5097, 5098, 5099, 5100, 5101, 5102, 5103, 5104, 5105, 5106,
      5107, 5108, 5109, 5112, 5113, 5114, 5115, 5116, 5117, 5760, 7296, 7297, 7298, 7299,
      7300, 7301, 7302, 7303, 7304, 7312, 7313, 7314, 7315, 7316, 7317, 7318, 7319, 7320,
      7321, 7322, 7323, 7324, 7325, 7326, 7327, 7328, 7329, 7330, 7331, 7332, 7333, 7334,
      7335, 7336, 7337, 7338, 7339, 7340, 7341, 7342, 7343, 7344, 7345, 7346, 7347, 7348,
      7349, 7350, 7351, 7352, 7353, 7354, 7357, 7358, 7359, 7545, 7549, 7566, 7680, 7681,
      7682, 7683, 7684, 7685, 7686, 7687, 7688, 7689, 7690, 7691, 7692, 7693, 7694, 7695,
      7696, 7697, 7698, 7699, 7700, 7701, 7702, 7703, 7704, 7705, 7706, 7707, 7708, 7709,
      7710, 7711, 7712, 7713, 7714, 7715, 7716, 7717, 7718, 7719, 7720, 7721, 7722, 7723,
      7724, 7725, 7726, 7727, 7728, 7729, 7730, 7731, 7732, 7733, 7734, 7735, 7736, 7737,
      7738, 7739, 7740, 7741, 7742, 7743, 7744, 7745, 7746, 7747, 7748, 7749, 7750, 7751,
      7752, 7753, 7754, 7755, 7756, 7757, 7758, 7759, 7760, 7761, 7762, 7763, 7764, 7765,
      7766, 7767, 7768, 7769, 7770, 7771, 7772, 7773, 7774, 7775, 7776, 7777, 7778, 7779,
      7780, 7781, 7782, 7783, 7784, 7785, 7786, 7787, 7788, 7789, 7790, 7791, 7792, 7793,
      7794, 7795, 7796, 7797, 7798, 7799, 7800, 7801, 7802, 7803, 7804, 7805, 7806, 7807,
      7808, 7809, 7810, 7811, 7812, 7813, 7814, 7815, 7816, 7817, 7818, 7819, 7820, 7821,
      7822, 7823, 7824, 7825, 7826, 7827, 7828, 7829, 7835, 7838, 7840, 7841, 7842, 7843,
      7844, 7845, 7846, 7847, 7848, 7849, 7850, 7851, 7852, 7853, 7854, 7855, 7856, 7857,
      7858, 7859, 7860, 7861, 7862, 7863, 7864, 7865, 7866, 7867, 7868, 7869, 7870, 7871,
      7872, 7873, 7874, 7875, 7876, 7877, 7878, 7879, 7880, 7881, 7882, 7883, 7884, 7885,
      7886, 7887, 7888, 7889, 7890, 7891, 7892, 7893, 7894, 7895, 7896, 7897, 7898, 7899,
      7900, 7901, 7902, 7903, 7904, 7905, 7906, 7907, 7908, 7909, 7910, 7911, 7912, 7913,
      7914, 7915, 7916, 7917, 7918, 7919, 7920, 7921, 7922, 7923, 7924, 7925, 7926, 7927,
      7928, 7929, 7930, 7931, 7932, 7933, 7934, 7935, 7936, 7937, 7938, 7939, 7940, 7941,
      7942, 7943, 7944, 7945, 7946, 7947, 7948, 7949, 7950, 7951, 7952, 7953, 7954, 7955,
      7956, 7957, 7960, 7961, 7962, 7963, 7964, 7965, 7968, 7969, 7970, 7971, 7972, 7973,
      7974, 7975, 7976, 7977, 7978, 7979, 7980, 7981, 7982, 7983, 7984, 7985, 7986, 7987,
      7988, 7989, 7990, 7991, 7992, 7993, 7994, 7995, 7996, 7997, 7998, 7999, 8000, 8001,
      8002, 8003, 8004, 8005, 8008, 8009, 8010, 8011, 8012, 8013, 8017, 8019, 8021, 8023,
      8025, 8027, 8029, 8031, 8032, 8033, 8034, 8035, 8036, 8037, 8038, 8039, 8040, 8041,
      8042, 8043, 8044, 8045, 8046, 8047, 8048, 8049, 8050, 8051, 8052, 8053, 8054, 8055,
      8056, 8057, 8058, 8059, 8060, 8061, 8064, 8065, 8066, 8067, 8068, 8069, 8070, 8071,
      8072, 8073, 8074, 8075, 8076, 8077, 8078, 8079, 8080, 8081, 8082, 8083, 8084, 8085,
      8086, 8087, 8088, 8089, 8090, 8091, 8092, 8093, 8094, 8095, 8096, 8097, 8098, 8099,
      8100, 8101, 8102, 8103, 8104, 8105, 8106, 8107, 8108, 8109, 8110, 8111, 8112, 8113,
      8115, 8120, 8121, 8122, 8123, 8124, 8126, 8131, 8136, 8137, 8138, 8139, 8140, 8144,
      8145, 8147, 8152, 8153, 8154, 8155, 8160, 8161, 8163, 8165, 8168, 8169, 8170, 8171,
      8172, 8179, 8184, 8185, 8186, 8187, 8188, 8192, 8193, 8194, 8195, 8196, 8197, 8198,
      8199, 8200, 8201, 8202, 8232, 8233, 8239, 8287, 8486, 8490, 8491, 8498, 8526, 8544,
      8545, 8546, 8547, 8548, 8549, 8550, 8551, 8552, 8553, 8554, 8555, 8556, 8557, 8558,
      8559, 8560, 8561, 8562, 8563, 8564, 8565, 8566, 8567, 8568, 8569, 8570, 8571, 8572,
      8573, 8574, 8575, 8579, 8580, 9398, 9399, 9400, 9401, 9402, 9403, 9404, 9405, 9406,
      9407, 9408, 9409, 9410, 9411, 9412, 9413, 9414, 9415, 9416, 9417, 9418, 9419, 9420,
      9421, 9422, 9423, 9424, 9425, 9426, 9427, 9428, 9429, 9430, 9431, 9432, 9433, 9434,
      9435, 9436, 9437, 9438, 9439, 9440, 9441, 9442, 9443, 9444, 9445, 9446, 9447, 9448,
      9449, 11264, 11265, 11266, 11267, 11268, 11269, 11270, 11271, 11272, 11273, 11274,
      11275, 11276, 11277, 11278, 11279, 11280, 11281, 11282, 11283, 11284, 11285, 11286,
      11287, 11288, 11289, 11290, 11291, 11292, 11293, 11294, 11295, 11296, 11297, 11298,
      11299, 11300, 11301, 11302, 11303, 11304, 11305, 11306, 11307, 11308, 11309, 11310,
      11311, 11312, 11313, 11314, 11315, 11316, 11317, 11318, 11319, 11320, 11321, 11322,
      11323, 11324, 11325, 11326, 11327, 11328, 11329, 11330, 11331, 11332, 11333, 11334,
      11335, 11336, 11337, 11338, 11339, 11340, 11341, 11342, 11343, 11344, 11345, 11346,
      11347, 11348, 11349, 11350, 11351, 11352, 11353, 11354, 11355, 11356, 11357, 11358,
      11359, 11360, 11361, 11362, 11363, 11364, 11365, 11366, 11367, 11368, 11369, 11370,
      11371, 11372, 11373, 11374, 11375, 11376, 11378, 11379, 11381, 11382, 11390, 11391,
      11392, 11393, 11394, 11395, 11396, 11397, 11398, 11399, 11400, 11401, 11402, 11403,
      11404, 11405, 11406, 11407, 11408, 11409, 11410, 11411, 11412, 11413, 11414, 11415,
      11416, 11417, 11418, 11419, 11420, 11421, 11422, 11423, 11424, 11425, 11426, 11427,
      11428, 11429, 11430, 11431, 11432, 11433, 11434, 11435, 11436, 11437, 11438, 11439,
      11440, 11441, 11442, 11443, 11444, 11445, 11446, 11447, 11448, 11449, 11450, 11451,
      11452, 11453, 11454, 11455, 11456, 11457, 11458, 11459, 11460, 11461, 11462, 11463,
      11464, 11465, 11466, 11467, 11468, 11469, 11470, 11471, 11472, 11473, 11474, 11475,
      11476, 11477, 11478, 11479, 11480, 11481, 11482, 11483, 11484, 11485, 11486, 11487,
      11488, 11489, 11490, 11491, 11499, 11500, 11501, 11502, 11506, 11507, 11520, 11521,
      11522, 11523, 11524, 11525, 11526, 11527, 11528, 11529, 11530, 11531, 11532, 11533,
      11534, 11535, 11536, 11537, 11538, 11539, 11540, 11541, 11542, 11543, 11544, 11545,
      11546, 11547, 11548, 11549, 11550, 11551, 11552, 11553, 11554, 11555, 11556, 11557,
      11559, 11565, 12288, 20854, 20998, 23427, 26410, 32452, 42560, 42561, 42562, 42563,
      42564, 42565, 42566, 42567, 42568, 42569, 42570, 42571, 42572, 42573, 42574, 42575,
      42576, 42577, 42578, 42579, 42580, 42581, 42582, 42583, 42584, 42585, 42586, 42587,
      42588, 42589, 42590, 42591, 42592, 42593, 42594, 42595, 42596, 42597, 42598, 42599,
      42600, 42601, 42602, 42603, 42604, 42605, 42624, 42625, 42626, 42627, 42628, 42629,
      42630, 42631, 42632, 42633, 42634, 42635, 42636, 42637, 42638, 42639, 42640, 42641,
      42642, 42643, 42644, 42645, 42646, 42647, 42648, 42649, 42650, 42651, 42786, 42787,
      42788, 42789, 42790, 42791, 42792, 42793, 42794, 42795, 42796, 42797, 42798, 42799,
      42802, 42803, 42804, 42805, 42806, 42807, 42808, 42809, 42810, 42811, 42812, 42813,
      42814, 42815, 42816, 42817, 42818, 42819, 42820, 42821, 42822, 42823, 42824, 42825,
      42826, 42827, 42828, 42829, 42830, 42831, 42832, 42833, 42834, 42835, 42836, 42837,
      42838, 42839, 42840, 42841, 42842, 42843, 42844, 42845, 42846, 42847, 42848, 42849,
      42850, 42851, 42852, 42853, 42854, 42855, 42856, 42857, 42858, 42859, 42860, 42861,
      42862, 42863, 42873, 42874, 42875, 42876, 42877, 42878, 42879, 42880, 42881, 42882,
      42883, 42884, 42885, 42886, 42887, 42891, 42892, 42893, 42896, 42897, 42898, 42899,
      42900, 42902, 42903, 42904, 42905, 42906, 42907, 42908, 42909, 42910, 42911, 42912,
      42913, 42914, 42915, 42916, 42917, 42918, 42919, 42920, 42921, 42922, 42923, 42924,
      42925, 42926, 42928, 42929, 42930, 42931, 42932, 42933, 42934, 42935, 42936, 42937,
      42938, 42939, 42940, 42941, 42942, 42943, 42944, 42945, 42946, 42947, 42948, 42949,
      42950, 42951, 42952, 42953, 42954, 42960, 42961, 42966, 42967, 42968, 42969, 42997,
      42998, 43859, 43888, 43889, 43890, 43891, 43892, 43893, 43894, 43895, 43896, 43897,
      43898, 43899, 43900, 43901, 43902, 43903, 43904, 43905, 43906, 43907, 43908, 43909,
      43910, 43911, 43912, 43913, 43914, 43915, 43916, 43917, 43918, 43919, 43920, 43921,
      43922, 43923, 43924, 43925, 43926, 43927, 43928, 43929, 43930, 43931, 43932, 43933,
      43934, 43935, 43936, 43937, 43938, 43939, 43940, 43941, 43942, 43943, 43944, 43945,
      43946, 43947, 43948, 43949, 43950, 43951, 43952, 43953, 43954, 43955, 43956, 43957,
      43958, 43959, 43960, 43961, 43962, 43963, 43964, 43965, 43966, 43967, 64261, 64262,
      65313, 65314, 65315, 65316, 65317, 65318, 65319, 65320, 65321, 65322, 65323, 65324,
      65325, 65326, 65327, 65328, 65329, 65330, 65331, 65332, 65333, 65334, 65335, 65336,
      65337, 65338, 65345, 65346, 65347, 65348, 65349, 65350, 65351, 65352, 65353, 65354,
      65355, 65356, 65357, 65358, 65359, 65360, 65361, 65362, 65363, 65364, 65365, 65366,
      65367, 65368, 65369, 65370, 66560, 66561, 66562, 66563, 66564, 66565, 66566, 66567,
      66568, 66569, 66570, 66571, 66572, 66573, 66574, 66575, 66576, 66577, 66578, 66579,
      66580, 66581, 66582, 66583, 66584, 66585, 66586, 66587, 66588, 66589, 66590, 66591,
      66592, 66593, 66594, 66595, 66596, 66597, 66598, 66599, 66600, 66601, 66602, 66603,
      66604, 66605, 66606, 66607, 66608, 66609, 66610, 66611, 66612, 66613, 66614, 66615,
      66616, 66617, 66618, 66619, 66620, 66621, 66622, 66623, 66624, 66625, 66626, 66627,
      66628, 66629, 66630, 66631, 66632, 66633, 66634, 66635, 66636, 66637, 66638, 66639,
      66736, 66737, 66738, 66739, 66740, 66741, 66742, 66743, 66744, 66745, 66746, 66747,
      66748, 66749, 66750, 66751, 66752, 66753, 66754, 66755, 66756, 66757, 66758, 66759,
      66760, 66761, 66762, 66763, 66764, 66765, 66766, 66767, 66768, 66769, 66770, 66771,
      66776, 66777, 66778, 66779, 66780, 66781, 66782, 66783, 66784, 66785, 66786, 66787,
      66788, 66789, 66790, 66791, 66792, 66793, 66794, 66795, 66796, 66797, 66798, 66799,
      66800, 66801, 66802, 66803, 66804, 66805, 66806, 66807, 66808, 66809, 66810, 66811,
      66928, 66929, 66930, 66931, 66932, 66933, 66934, 66935, 66936, 66937, 66938, 66940,
      66941, 66942, 66943, 66944, 66945, 66946, 66947, 66948, 66949, 66950, 66951, 66952,
      66953, 66954, 66956, 66957, 66958, 66959, 66960, 66961, 66962, 66964, 66965, 66967,
      66968, 66969, 66970, 66971, 66972, 66973, 66974, 66975, 66976, 66977, 66979, 66980,
      66981, 66982, 66983, 66984, 66985, 66986, 66987, 66988, 66989, 66990, 66991, 66992,
      66993, 66995, 66996, 66997, 66998, 66999, 67000, 67001, 67003, 67004, 68736, 68737,
      68738, 68739, 68740, 68741, 68742, 68743, 68744, 68745, 68746, 68747, 68748, 68749,
      68750, 68751, 68752, 68753, 68754, 68755, 68756, 68757, 68758, 68759, 68760, 68761,
      68762, 68763, 68764, 68765, 68766, 68767, 68768, 68769, 68770, 68771, 68772, 68773,
      68774, 68775, 68776, 68777, 68778, 68779, 68780, 68781, 68782, 68783, 68784, 68785,
      68786, 68800, 68801, 68802, 68803, 68804, 68805, 68806, 68807, 68808, 68809, 68810,
      68811, 68812, 68813, 68814, 68815, 68816, 68817, 68818, 68819, 68820, 68821, 68822,
      68823, 68824, 68825, 68826, 68827, 68828, 68829, 68830, 68831, 68832, 68833, 68834,
      68835, 68836, 68837, 68838, 68839, 68840, 68841, 68842, 68843, 68844, 68845, 68846,
      68847, 68848, 68849, 68850, 71840, 71841, 71842, 71843, 71844, 71845, 71846, 71847,
      71848, 71849, 71850, 71851, 71852, 71853, 71854, 71855, 71856, 71857, 71858, 71859,
      71860, 71861, 71862, 71863, 71864, 71865, 71866, 71867, 71868, 71869, 71870, 71871,
      71872, 71873, 71874, 71875, 71876, 71877, 71878, 71879, 71880, 71881, 71882, 71883,
      71884, 71885, 71886, 71887, 71888, 71889, 71890, 71891, 71892, 71893, 71894, 71895,
      71896, 71897, 71898, 71899, 71900, 71901, 71902, 71903, 93760, 93761, 93762, 93763,
      93764, 93765, 93766, 93767, 93768, 93769, 93770, 93771, 93772, 93773, 93774, 93775,
      93776, 93777, 93778, 93779, 93780, 93781, 93782, 93783, 93784, 93785, 93786, 93787,
      93788, 93789, 93790, 93791, 93792, 93793, 93794, 93795, 93796, 93797, 93798, 93799,
      93800, 93801, 93802, 93803, 93804, 93805, 93806, 93807, 93808, 93809, 93810, 93811,
      93812, 93813, 93814, 93815, 93816, 93817, 93818, 93819, 93820, 93821, 93822, 93823,
      125184, 125185, 125186, 125187, 125188, 125189, 125190, 125191, 125192, 125193,
      125194, 125195, 125196, 125197, 125198, 125199, 125200, 125201, 125202, 125203,
      125204, 125205, 125206, 125207, 125208, 125209, 125210, 125211, 125212, 125213,
      125214, 125215, 125216, 125217, 125218, 125219, 125220, 125221, 125222, 125223,
      125224, 125225, 125226, 125227, 125228, 125229, 125230, 125231, 125232, 125233,
      125234, 125235, 125236, 125237, 125238, 125239, 125240, 125241, 125242, 125243,
      125244, 125245, 125246, 125247, 125248, 125249, 125250, 125251>>

CodePoint ==
    [c \in {Chars[k] : k \in 1..Len(Chars)} |->
        Codes[CHOOSE k \in 1..Len(Chars) : Chars[k] = c]]

\* ord(c)
ord(c) == CodePoint[c]

\* the UTF-8 bytes of one code point
utf8(n) ==
    IF n < 128 THEN <<n>>
    ELSE IF n < 2048 THEN <<192 + (n \div 64), 128 + (n % 64)>>
    ELSE IF n < 65536
    THEN <<224 + (n \div 4096), 128 + ((n \div 64) % 64), 128 + (n % 64)>>
    ELSE <<240 + (n \div 262144), 128 + ((n \div 4096) % 64), 128 + ((n \div 64) % 64),
           128 + (n % 64)>>

\* s.encode("utf-8")
RECURSIVE encode(_)
encode(s) == IF s = <<>> THEN <<>> ELSE utf8(ord(Head(s))) \o encode(Tail(s))

----------------------------------------------------------------------------
(* String constants of the source *)

EXTINF == <<"#", "E", "X", "T", "I", "N", "F", ":", "-", "1">>
GroupTitleKey == <<"g", "r", "o", "u", "p", "-", "t", "i", "t", "l", "e", "=", "\"">>
TvgNameKey == <<"t", "v", "g", "-", "n", "a", "m", "e", "=", "\"">>
GENRE == <<"#", "g", "e", "n", "r", "e", "#">>
GenreSuffix == COMMA \o GENRE
Ungrouped == <<"U672A", "U5206", "U7EC4">>
OtherCategory == <<"U5176", "U5B83">>

----------------------------------------------------------------------------
(* parse_m3u_to_txt *)

\* mapping.get(name, name)
mapping_get(m, name) == IF name \in DOMAIN m THEN m[name] ELSE name

\* line.split(',')[-1]
last_field(line) == LET k == rfind(line, COMMA) IN SubSeq(line, k + 1, Len(line))

has_group(chs, group) == \E k \in 1..Len(chs) : chs[k].group = group

\* if group not in channels: channels[group] = []; channels[group].append(entry)
channels_append(chs, group, entry) ==
    IF has_group(chs, group)
    THEN [k \in 1..Len(chs) |->
            IF chs[k].group = group
            THEN [chs[k] EXCEPT !.channel_list = Append(@, entry)]
            ELSE chs[k]]
    ELSE Append(chs, [group |-> group, channel_list |-> <<entry>>])

\* the name of the metadata line: tvg-name, else the text after the last comma; then the mapping
entry_name(m, line) ==
    LET name_match == re_search_attr(TvgNameKey, line)
        name == IF name_match.found THEN name_match.group1 ELSE strip(last_field(line))
    IN  mapping_get(m, name)

\* the group of the metadata line: group-title, else the carried group
entry_group(line, cur) ==
    LET group_match == re_search_attr(GroupTitleKey, line)
    IN  IF group_match.found THEN group_match.group1 ELSE cur

\* url_ok without the test for a comment line
url_ok_AcceptComment(ls, i) ==
    /\ i + 1 <= Len(ls)
    /\ strip(ls[i + 1]) # <<>>

\* does the line after lines[i] give a url
url_ok(ls, i) ==
    /\ i + 1 <= Len(ls)
    /\ strip(ls[i + 1]) # <<>>
    /\ ~startswith(strip(ls[i + 1]), <<"#">>)

\* ParseLine with current_group = group moved out of the url test
ParseLine_CarryDiscarded(st, m, ls, i) ==
    LET line == strip(ls[i])
    IN  IF ~startswith(line, EXTINF) THEN st
        ELSE LET group == entry_group(line, st.current_group)
                 name == entry_name(m, line)
             IN  IF url_ok(ls, i)
                 THEN [channels |-> channels_append(st.channels, group,
                                        name \o COMMA \o strip(ls[i + 1])),
                       current_group |-> group]
                 ELSE [st EXCEPT !.current_group = group]

\* one iteration of the loop over the lines: st = [channels, current_group]
ParseLine(st, m, ls, i) ==
    LET line == strip(ls[i])
    IN  IF ~startswith(line, EXTINF) THEN st
        ELSE LET group == entry_group(line, st.current_group)
                 name == entry_name(m, line)
             IN  IF url_ok(ls, i)
                 THEN [channels |-> channels_append(st.channels, group,
                                        name \o COMMA \o strip(ls[i + 1])),
                       current_group |-> group]
                 ELSE st

\* for group, channel_list in channels.items(): txt_content += ...
RECURSIVE groups_text(_)
groups_text(chs) ==
    IF chs = <<>> THEN <<>>
    ELSE chs[1].group \o GenreSuffix \o NL
         \o join(NL, chs[1].channel_list) \o NL \o NL
         \o groups_text(Tail(chs))

RECURSIVE parse_loop(_, _, _, _)
parse_loop(st, m, ls, i) ==
    IF i > Len(ls) THEN st ELSE parse_loop(ParseLine(st, m, ls, i), m, ls, i + 1)

\* the whole function, as fetch_m3u_content calls it
parse_m3u_to_txt(m, content) ==
    LET ls == split(content, NL)
        st == parse_loop([channels |-> <<>>, current_group |-> Ungrouped], m, ls, 1)
    IN  strip(groups_text(st.channels))

----------------------------------------------------------------------------
(* Inputs of the parser *)

MetaA == EXTINF \o <<" ">> \o GroupTitleKey \o <<"A", "\"", ",", "N">>
MetaB == EXTINF \o <<" ">> \o GroupTitleKey \o <<"B", "\"", ",", "P">>
MetaTvg == EXTINF \o <<" ">> \o TvgNameKey \o <<"M", "\"", ",", "x">>

RawLines == {MetaA, MetaB, MetaTvg, <<"u">>, <<"v", "\r">>, <<>>, <<"\f", "#", "c">>}

Docs == {join(NL, ls) : ls \in UNION {[1..n -> RawLines] : n \in 0..MaxDocLines}}

NoMapping == [n \in {} |-> n]
Mappings == {NoMapping, [n \in {<<"N">>} |-> <<"K">>]}

----------------------------------------------------------------------------
(* parse_m3u_to_txt, statement by statement *)

\* a file that does not exist
NoFile == [exists |-> FALSE, content |-> <<>>]

MainIdle ==
    /\ pc = "idle"
    /\ source_urls = <<>>
    /\ network = <<>>
    /\ src_i = 0
    /\ all_content = <<>>
    /\ template_file = NoFile
    /\ categories = <<>>
    /\ all_lines = <<>>
    /\ sorted_content = <<>>
    /\ matched_lines = {}
    /\ cat_i = 0
    /\ chan_i = 0
    /\ other_lines = <<>>
    /\ output_file = NoFile

ParseInit ==
    /\ MainIdle
    /\ ppc = "start"
    /\ m3u_content \in Docs
    /\ mapping \in Mappings
    /\ lines = <<>>
    /\ p_i = 0
    /\ channels = <<>>
    /\ current_group = <<>>
    /\ txt_content = <<>>

ParseStart ==
    /\ ppc = "start"
    /\ lines' = split(m3u_content, NL)
    /\ channels' = <<>>
    /\ current_group' = Ungrouped
    /\ p_i' = 1
    /\ ppc' = "loop"
    /\ UNCHANGED <<mainvars, mapping, m3u_content, txt_content>>

ParseStep ==
    /\ ppc = "loop"
    /\ p_i <= Len(lines)
    /\ LET st == ParseLine([channels |-> channels, current_group |-> current_group],
                           mapping, lines, p_i)
       IN  /\ channels' = st.channels
           /\ current_group' = st.current_group
    /\ p_i' = p_i + 1
    /\ UNCHANGED <<mainvars, mapping, m3u_content, lines, ppc, txt_content>>

ParseFinish ==
    /\ ppc = "loop"
    /\ p_i > Len(lines)
    /\ txt_content' = strip(groups_text(channels))
    /\ ppc' = "done"
    /\ UNCHANGED <<mainvars, mapping, m3u_content, lines, p_i, channels, current_group>>

ParseNext == ParseStart \/ ParseStep \/ ParseFinish

ParseSpec == ParseInit /\ [][ParseNext]_vars

----------------------------------------------------------------------------
(* Properties of parse_m3u_to_txt *)

Count(seq, x) == Cardinality({k \in DOMAIN seq : seq[k] = x})
Range(seq) == {seq[k] : k \in DOMAIN seq}
SameBag(a, b) == \A x \in Range(a) \cup Range(b) : Count(a, x) = Count(b, x)

\* lines[i] is a metadata line
IsMeta(ls, i) == startswith(strip(ls[i]), EXTINF)

\* the metadata line lines[i] carries an explicit group-title
HasGroupTitle(ls, i) == IsMeta(ls, i) /\ re_search_attr(GroupTitleKey, strip(ls[i])).found
GroupTitle(ls, i) == re_search_attr(GroupTitleKey, strip(ls[i])).group1

\* the line after lines[i] exists and, trimmed, is non-empty and no comment
NextIsUrl(ls, i) ==
    /\ i < Len(ls)
    /\ LET u == strip(ls[i + 1]) IN u # <<>> /\ u[1] # "#"

Emits(ls, i) == IsMeta(ls, i) /\ NextIsUrl(ls, i)

\* the group-title of the last line before i among those in S, "未分组" if there is none
LastTitle(ls, S) ==
    IF S = {} THEN Ungrouped
    ELSE GroupTitle(ls, CHOOSE j \in S : \A k \in S : k <= j)

\* the metadata lines before i that carry a group-title (and, with emitting, emit a record)
Titled(ls, i, emitting) ==
    {j \in 1..(i - 1) : HasGroupTitle(ls, j) /\ (emitting => Emits(ls, j))}

GroupOf(ls, i, emitting) ==
    IF HasGroupTitle(ls, i) THEN GroupTitle(ls, i) ELSE LastTitle(ls, Titled(ls, i, emitting))

\* the records of the first n lines that belong to group g, in line order
RECURSIVE GroupRecords(_, _, _, _, _)
GroupRecords(m, ls, n, g, emitting) ==
    IF n = 0 THEN <<>>
    ELSE GroupRecords(m, ls, n - 1, g, emitting)
         \o (IF Emits(ls, n) /\ GroupOf(ls, n, emitting) = g
             THEN <<entry_name(m, strip(ls[n])) \o COMMA \o strip(ls[n + 1])>>
             ELSE <<>>)

\* every record sits under the group its metadata line is assigned
GroupsAssigned(emitting) ==
    /\ \A k \in 1..Len(channels) :
          channels[k].channel_list
              = GroupRecords(mapping, lines, p_i - 1, channels[k].group, emitting)
    /\ \A j \in 1..(p_i - 1) :
          Emits(lines, j) => has_group(channels, GroupOf(lines, j, emitting))

\* C5 as stated: an entry without group-title gets the group-title of the most recent
\* earlier metadata line that carried one, "未分组" if none did
C5_AsStated == ppc \in {"loop", "done"} => GroupsAssigned(FALSE)

\* C5, amended: an entry without group-title gets the group-title of the most recent
\* earlier metadata line that carried one and emitted a record, "未分组" if there is
\* none; the carried group is always that title, so it changes only when a metadata
\* line with a group-title emits a record
C5_GroupCarry ==
    ppc \in {"loop", "done"} =>
        /\ GroupsAssigned(TRUE)
        /\ current_group = LastTitle(lines, Titled(lines, p_i, TRUE))

\* an emitted entry without group-title inherits a group other than the default
C5_Witness ==
    /\ ppc = "done"
    /\ \E j \in 1..Len(lines) :
          /\ Emits(lines, j)
          /\ ~HasGroupTitle(lines, j)
          /\ GroupOf(lines, j, TRUE) # Ungrouped
          /\ has_group(channels, GroupOf(lines, j, TRUE))

\* all records of the channels dict, group by group
RECURSIVE AllRecords(_)
AllRecords(chs) ==
    IF chs = <<>> THEN <<>> ELSE chs[1].channel_list \o AllRecords(Tail(chs))

\* name,url for every emitting metadata line among the first n; the url trimmed or raw
RECURSIVE EmittedRecords(_, _, _, _)
EmittedRecords(m, ls, n, trimmed) ==
    IF n = 0 THEN <<>>
    ELSE EmittedRecords(m, ls, n - 1, trimmed)
         \o (IF Emits(ls, n)
             THEN <<entry_name(m, strip(ls[n])) \o COMMA
                    \o (IF trimmed THEN strip(ls[n + 1]) ELSE ls[n + 1])>>
             ELSE <<>>)

\* C6 as stated: one record per metadata line whose next line is a url, and the
\* record's url is exactly that next line
C6_AsStated ==
    ppc \in {"loop", "done"} =>
        SameBag(AllRecords(channels), EmittedRecords(mapping, lines, p_i - 1, FALSE))

\* C6, amended: a metadata line emits a record iff the next line exists and, trimmed,
\* is non-empty and does not start with '#'; the record's url is that next line with
\* the surrounding whitespace trimmed; any other metadata line emits nothing
C6_UrlFollows ==
    ppc \in {"loop", "done"} =>
        SameBag(AllRecords(channels), EmittedRecords(mapping, lines, p_i - 1, TRUE))

\* a record was emitted from a url line with whitespace around it, and another
\* metadata line was discarded
C6_Witness ==
    /\ ppc = "done"
    /\ \E j \in 1..Len(lines) : Emits(lines, j) /\ strip(lines[j + 1]) # lines[j + 1]
    /\ \E j \in 1..Len(lines) : IsMeta(lines, j) /\ ~Emits(lines, j)
    /\ channels # <<>>

----------------------------------------------------------------------------
(* load_categories_from_template *)

has_category(cats, category) == \E k \in 1..Len(cats) : cats[k].category = category

\* categories[current_category] = []: a key already there keeps its place
categories_reset(cats, category) ==
    IF has_category(cats, category)
    THEN [k \in 1..Len(cats) |->
            IF cats[k].category = category THEN [cats[k] EXCEPT !.channels = <<>>] ELSE cats[k]]
    ELSE Append(cats, [category |-> category, channels |-> <<>>])

\* categories[current_category].append(channel)
categories_append(cats, category, channel) ==
    [k \in 1..Len(cats) |->
        IF cats[k].category = category
        THEN [cats[k] EXCEPT !.channels = Append(@, channel)]
        ELSE cats[k]]

\* one line of the template: st = [categories, current_category], None as [set |-> FALSE]
TemplateLine(st, raw) ==
    LET line == strip(raw)
    IN  IF line = <<>> THEN st
        ELSE IF contains(line, GenreSuffix)
        THEN LET category == strip(split(line, COMMA)[1])
             IN  [categories |-> categories_reset(st.categories, category),
                  current_category |-> [set |-> TRUE, name |-> category]]
        ELSE IF st.current_category.set /\ st.current_category.name # <<>>
        THEN [st EXCEPT !.categories =
                 categories_append(@, st.current_category.name, strip(line))]
        ELSE st

RECURSIVE template_loop(_, _)
template_loop(st, ls) ==
    IF ls = <<>> THEN st ELSE template_loop(TemplateLine(st, Head(ls)), Tail(ls))

load_categories_from_template(file) ==
    IF ~file.exists THEN <<>>
    ELSE template_loop([categories |-> <<>>,
                        current_category |-> [set |-> FALSE, name |-> <<>>]],
                       file.content).categories

----------------------------------------------------------------------------
(* fetch_m3u_content *)

HTTP == <<"h", "t", "t", "p", ":", "/", "/">>
HTTPS == <<"h", "t", "t", "p", "s", ":", "/", "/">>

\* re.search(r"https?://[^\s]+", url)
re_search_url(url) ==
    \E i \in 1..Len(url) : \E scheme \in {HTTP, HTTPS} :
        /\ i + Len(scheme) <= Len(url)
        /\ SubSeq(url, i, i + Len(scheme) - 1) = scheme
        /\ ~IsSpace(url[i + Len(scheme)])

\* "" for a url without a match and for a request that raises, else the parsed response
fetch_m3u_content(m, url, response) ==
    IF ~re_search_url(url) THEN <<>>
    ELSE IF ~response.ok THEN <<>>
    ELSE parse_m3u_to_txt(m, response.text)

----------------------------------------------------------------------------
(* main: the classification *)

\* re_match_channel without the \s*, behind the name
re_match_channel_Prefix(channel, line) ==
    \E a \in 0..Len(line) :
        /\ a + Len(channel) <= Len(line)
        /\ \A k \in 1..a : IsSpace(line[k])
        /\ casefold(SubSeq(line, a + 1, a + Len(channel))) = casefold(channel)

\* re.match(rf"^\s*{re.escape(channel)}\s*,", line, re.IGNORECASE)
re_match_channel(channel, line) ==
    \E a \in 0..Len(line) : \E b \in 0..Len(line) :
        /\ a + Len(channel) + b + 1 <= Len(line)
        /\ \A k \in 1..a : IsSpace(line[k])
        /\ casefold(SubSeq(line, a + 1, a + Len(channel))) = casefold(channel)
        /\ \A k \in 1..b : IsSpace(line[a + Len(channel) + k])
        /\ line[a + Len(channel) + b + 1] = ","

\* scan_lines over reversed(all_lines)
scan_lines_Reversed(channel, ls) ==
    LET found == SelectSeq(ls, LAMBDA line : re_match_channel(channel, line))
    IN  [k \in 1..Len(found) |-> found[Len(found) + 1 - k]]

\* for line in all_lines: if re.match(...): the lines appended for one channel
scan_lines(channel, ls) == SelectSeq(ls, LAMBDA line : re_match_channel(channel, line))

\* [line.strip() for line in lines if line.strip() and "#genre#" not in line]
RECURSIVE content_lines(_)
content_lines(ls) ==
    IF ls = <<>> THEN <<>>
    ELSE (IF strip(Head(ls)) # <<>> /\ ~contains(Head(ls), GENRE)
          THEN <<strip(Head(ls))>> ELSE <<>>)
         \o content_lines(Tail(ls))

\* unmatched without the filter
unmatched_All(ls, matched) == ls

\* [line for line in all_lines if line not in matched_lines]
unmatched(ls, matched) == SelectSeq(ls, LAMBDA line : line \notin matched)

\* document with the result stripped
document_Trimmed(sorted) == strip(join(NL, sorted))

\* "\n".join(sorted_content)
document(sorted) == join(NL, sorted)

----------------------------------------------------------------------------
(* Inputs of main *)

SourceUrlGood == HTTP \o <<"s">>
SourceUrlBad == <<"h", "t", "t", "p", "z">>

CCTV1 == <<"C", "C", "T", "V", "1">>
CCTV10 == <<"C", "C", "T", "V", "1", "0">>

\* TV/live.txt before the run: not there, or left by an earlier run
OutputFiles ==
    {NoFile, [exists |-> TRUE, content |-> encode(<<"o", "l", "d", " ", "t", "e", "x", "t", "\n">>)]}

\* no entry at all
DocEmpty == <<"#", "E", "X", "T", "M", "3", "U">>
\* CCTV1 -> x
DocOne == EXTINF \o COMMA \o CCTV1 \o NL \o <<"x">>
\* group G: "CCTV1 " (trailing blank, from tvg-name) -> w, then CCTV10 -> y in the carried group
DocTwo == EXTINF \o <<" ">> \o GroupTitleKey \o <<"G", "\"", " ">>
              \o TvgNameKey \o CCTV1 \o <<" ", "\"", ",", "z">> \o NL \o <<"w">> \o NL
          \o EXTINF \o COMMA \o CCTV10 \o NL \o <<"y">>

Sources ==
    {[url |-> SourceUrlBad, response |-> [ok |-> FALSE, text |-> <<>>]],
     [url |-> SourceUrlGood, response |-> [ok |-> FALSE, text |-> <<>>]]}
    \cup {[url |-> SourceUrlGood, response |-> [ok |-> TRUE, text |-> d]] :
             d \in {DocEmpty, DocOne, DocTwo}}

TemplateLines == {<<"A">> \o GenreSuffix, <<"B">> \o GenreSuffix,
                  CCTV1, <<"c", "c", "t", "v", "1", "0">>}

TemplateFiles ==
    {NoFile} \cup
    {[exists |-> TRUE, content |-> ls] :
        ls \in UNION {[1..n -> TemplateLines] : n \in 0..MaxTemplateLines}}

----------------------------------------------------------------------------
(* main, statement by statement *)

ParseIdle ==
    /\ ppc = "idle"
    /\ m3u_content = <<>>
    /\ lines = <<>>
    /\ p_i = 0
    /\ channels = <<>>
    /\ current_group = <<>>
    /\ txt_content = <<>>

Init ==
    /\ ParseIdle
    /\ mapping = NoMapping
    /\ pc = "fetch"
    /\ \E n \in 1..MaxSources : \E srcs \in [1..n -> Sources] :
          /\ source_urls = [k \in 1..n |-> srcs[k].url]
          /\ network = [k \in 1..n |-> srcs[k].response]
    /\ src_i = 1
    /\ all_content = <<>>
    /\ template_file \in TemplateFiles
    /\ categories = <<>>
    /\ all_lines = <<>>
    /\ sorted_content = <<>>
    /\ matched_lines = {}
    /\ cat_i = 0
    /\ chan_i = 0
    /\ other_lines = <<>>
    /\ output_file \in OutputFiles

\* Fetch where a source without content ends main
Fetch_AbortOnFailure ==
    /\ pc = "fetch"
    /\ src_i <= Len(source_urls)
    /\ LET content == fetch_m3u_content(mapping, source_urls[src_i], network[src_i])
       IN  IF content # <<>>
           THEN /\ all_content' = all_content \o content \o NL \o NL
                /\ src_i' = src_i + 1
                /\ pc' = pc
           ELSE /\ pc' = "done"
                /\ UNCHANGED <<all_content, src_i>>
    /\ UNCHANGED <<source_urls, network, template_file, categories, all_lines,
                   sorted_content, matched_lines, cat_i, chan_i, other_lines, output_file,
                   parsevars, mapping>>

\* for url in source_urls: content = fetch_m3u_content(url); if content: all_content += ...
Fetch ==
    /\ pc = "fetch"
    /\ src_i <= Len(source_urls)
    /\ LET content == fetch_m3u_content(mapping, source_urls[src_i], network[src_i])
       IN  all_content' = IF content # <<>> THEN all_content \o content \o NL \o NL
                          ELSE all_content
    /\ src_i' = src_i + 1
    /\ UNCHANGED <<pc, source_urls, network, template_file, categories, all_lines,
                   sorted_content, matched_lines, cat_i, chan_i, other_lines, output_file,
                   parsevars, mapping>>

\* CheckContent without the return
CheckContent_NoReturn ==
    /\ pc = "fetch"
    /\ src_i > Len(source_urls)
    /\ pc' = "template"
    /\ UNCHANGED <<source_urls, network, src_i, all_content, template_file, categories,
                   all_lines, sorted_content, matched_lines, cat_i, chan_i, other_lines,
                   output_file, parsevars, mapping>>

\* if not all_content: return
CheckContent ==
    /\ pc = "fetch"
    /\ src_i > Len(source_urls)
    /\ pc' = IF all_content = <<>> THEN "done" ELSE "template"
    /\ UNCHANGED <<source_urls, network, src_i, all_content, template_file, categories,
                   all_lines, sorted_content, matched_lines, cat_i, chan_i, other_lines,
                   output_file, parsevars, mapping>>

\* LoadTemplate without the return
LoadTemplate_NoReturn ==
    /\ pc = "template"
    /\ categories' = load_categories_from_template(template_file)
    /\ pc' = "prepare"
    /\ UNCHANGED <<source_urls, network, src_i, all_content, template_file, all_lines,
                   sorted_content, matched_lines, cat_i, chan_i, other_lines, output_file,
                   parsevars, mapping>>

\* categories = load_categories_from_template(); if not categories: return
LoadTemplate ==
    /\ pc = "template"
    /\ categories' = load_categories_from_template(template_file)
    /\ pc' = IF categories' = <<>> THEN "done" ELSE "prepare"
    /\ UNCHANGED <<source_urls, network, src_i, all_content, template_file, all_lines,
                   sorted_content, matched_lines, cat_i, chan_i, other_lines, output_file,
                   parsevars, mapping>>

\* lines = all_content.splitlines(); sorted_content = []; all_lines = ...; matched_lines = set()
Prepare ==
    /\ pc = "prepare"
    /\ all_lines' = content_lines(splitlines(all_content))
    /\ sorted_content' = <<>>
    /\ matched_lines' = {}
    /\ cat_i' = 1
    /\ pc' = "category"
    /\ UNCHANGED <<source_urls, network, src_i, all_content, template_file, categories,
                   chan_i, other_lines, output_file, parsevars, mapping>>

\* for category, channels in categories.items(): sorted_content.append(f"{category},#genre#")
BeginCategory ==
    /\ pc = "category"
    /\ cat_i <= Len(categories)
    /\ sorted_content' = Append(sorted_content, categories[cat_i].category \o GenreSuffix)
    /\ chan_i' = 1
    /\ pc' = "channel"
    /\ UNCHANGED <<source_urls, network, src_i, all_content, template_file, categories,
                   all_lines, matched_lines, cat_i, other_lines, output_file, parsevars,
                   mapping>>

\* for channel in channels: for line in all_lines: if re.match(...): append, add
MatchChannel ==
    /\ pc = "channel"
    /\ chan_i <= Len(categories[cat_i].channels)
    /\ LET found == scan_lines(categories[cat_i].channels[chan_i], all_lines)
       IN  /\ sorted_content' = sorted_content \o found
           /\ matched_lines' = matched_lines \cup {found[k] : k \in DOMAIN found}
    /\ chan_i' = chan_i + 1
    /\ UNCHANGED <<pc, source_urls, network, src_i, all_content, template_file, categories,
                   all_lines, cat_i, other_lines, output_file, parsevars, mapping>>

\* sorted_content.append("")
EndCategory ==
    /\ pc = "channel"
    /\ chan_i > Len(categories[cat_i].channels)
    /\ sorted_content' = Append(sorted_content, <<>>)
    /\ cat_i' = cat_i + 1
    /\ pc' = "category"
    /\ UNCHANGED <<source_urls, network, src_i, all_content, template_file, categories,
                   all_lines, matched_lines, chan_i, other_lines, output_file, parsevars,
                   mapping>>

\* other_lines = ...; if other_lines: header, the lines, ""
Others ==
    /\ pc = "category"
    /\ cat_i > Len(categories)
    /\ other_lines' = unmatched(all_lines, matched_lines)
    /\ sorted_content' = IF other_lines' # <<>>
                         THEN Append(Append(sorted_content, OtherCategory \o GenreSuffix)
                                     \o other_lines', <<>>)
                         ELSE sorted_content
    /\ pc' = "write"
    /\ UNCHANGED <<source_urls, network, src_i, all_content, template_file, categories,
                   all_lines, matched_lines, cat_i, chan_i, output_file, parsevars, mapping>>

\* with open(output_path, "w", encoding="utf-8") as f: f.write("\n".join(sorted_content)),
\* then the two prints
Write ==
    /\ pc = "write"
    /\ output_file' = [exists |-> TRUE, content |-> encode(document(sorted_content))]
    /\ pc' = "saved"
    /\ UNCHANGED <<source_urls, network, src_i, all_content, template_file, categories,
                   all_lines, sorted_content, matched_lines, cat_i, chan_i, other_lines,
                   parsevars, mapping>>

\* except Exception, raised by open(): the file is as it was
OpenError ==
    /\ pc = "write"
    /\ pc' = "save_error"
    /\ UNCHANGED <<source_urls, network, src_i, all_content, template_file, categories,
                   all_lines, sorted_content, matched_lines, cat_i, chan_i, other_lines,
                   output_file, parsevars, mapping>>

\* except Exception, raised by the write after open() truncated the file: the file
\* holds the bytes the system took before it failed, fewer than the document has; the
\* cut may fall inside the bytes of one character
WriteError ==
    /\ pc = "write"
    /\ \E data \in {encode(document(sorted_content))} : \E n \in 0..(Len(data) - 1) :
          output_file' = [exists |-> TRUE, content |-> SubSeq(data, 1, n)]
    /\ pc' = "save_error"
    /\ UNCHANGED <<source_urls, network, src_i, all_content, template_file, categories,
                   all_lines, sorted_content, matched_lines, cat_i, chan_i, other_lines,
                   parsevars, mapping>>

\* except Exception, raised by a print behind the with block (line 202 prints U+2705,
\* which a stdout encoding such as gbk does not have): the file is written and closed,
\* it holds the whole document
PrintError ==
    /\ pc = "write"
    /\ output_file' = [exists |-> TRUE, content |-> encode(document(sorted_content))]
    /\ pc' = "save_error"
    /\ UNCHANGED <<source_urls, network, src_i, all_content, template_file, categories,
                   all_lines, sorted_content, matched_lines, cat_i, chan_i, other_lines,
                   parsevars, mapping>>

Next ==
    \/ Fetch
    \/ CheckContent
    \/ LoadTemplate
    \/ Prepare
    \/ BeginCategory
    \/ MatchChannel
    \/ EndCategory
    \/ Others
    \/ Write
    \/ OpenError
    \/ WriteError
    \/ PrintError

Spec == Init /\ [][Next]_vars

----------------------------------------------------------------------------
(* Properties of main *)

\* the classification loops have run to their end: sorted_content is the document to
\* write, and no later statement changes it
Classified == pc = "write"

\* the text before the first comma of a line
NameField(line) ==
    LET k == find(line, COMMA) IN IF k = 0 THEN line ELSE SubSeq(line, 1, k - 1)

IsRecordLine(line) == line # <<>> /\ ~contains(line, GENRE)

\* C1: every aggregated line is in the output exactly once, under one template
\* category or under the catch-all
C1_ExactlyOnce ==
    Classified => SameBag(SelectSeq(sorted_content, IsRecordLine), all_lines)

\* the step that handles one expected name, and the lines it puts under it
PlacesChannel == pc = "channel" /\ pc' = "channel" /\ chan_i' = chan_i + 1
PlacedLines == SubSeq(sorted_content', Len(sorted_content) + 1, Len(sorted_content'))

\* line is the expected name, then blanks, then a comma (letters compared without case)
NameThenComma(channel, line) ==
    /\ Len(line) > Len(channel)
    /\ casefold(SubSeq(line, 1, Len(channel))) = casefold(channel)
    /\ \E n \in (Len(channel) + 1)..Len(line) :
          /\ line[n] = ","
          /\ \A k \in (Len(channel) + 1)..(n - 1) : IsSpace(line[k])

\* C2 as stated: a line is placed under an expected name only if its name field equals
\* the expected name case-insensitively
C2_AsStated ==
    [][PlacesChannel =>
          \A k \in DOMAIN PlacedLines :
              casefold(NameField(PlacedLines[k]))
                  = casefold(categories[cat_i].channels[chan_i])]_vars

\* C2, amended: a line is placed under an expected name only if the line is that name
\* (compared case-insensitively), then optional whitespace, then a comma; a line named
\* CCTV1 is never placed under CCTV10 and a line named CCTV10 never under CCTV1
C2_Anchored ==
    [][PlacesChannel =>
          \A k \in DOMAIN PlacedLines :
              LET channel == categories[cat_i].channels[chan_i]
                  line == PlacedLines[k]
              IN  /\ NameThenComma(channel, line)
                  /\ ~(NameField(line) = CCTV1 /\ casefold(channel) = casefold(CCTV10))
                  /\ ~(NameField(line) = CCTV10 /\ casefold(channel) = casefold(CCTV1))]_vars

\* CCTV1 is an expected name, a record named CCTV10 went to the catch-all, and a record
\* whose name field is "CCTV1 " was placed under CCTV1
C2_Witness ==
    /\ Classified
    /\ \E c \in 1..Len(categories) : \E k \in 1..Len(categories[c].channels) :
          categories[c].channels[k] = CCTV1
    /\ \E k \in 1..Len(other_lines) : NameField(other_lines[k]) = CCTV10
    /\ \E line \in matched_lines : NameField(line) = CCTV1 \o <<" ">>

\* the lines a category holds: for each expected name in template order, the lines
\* that match it in the order of ls
RECURSIVE ChannelSlots(_, _)
ChannelSlots(chans, ls) ==
    IF chans = <<>> THEN <<>>
    ELSE SelectSeq(ls, LAMBDA line : re_match_channel(Head(chans), line))
         \o ChannelSlots(Tail(chans), ls)

\* header, lines and separator of every category, in template order
RECURSIVE TemplatePart(_, _)
TemplatePart(cats, ls) ==
    IF cats = <<>> THEN <<>>
    ELSE <<Head(cats).category \o GenreSuffix>> \o ChannelSlots(Head(cats).channels, ls)
         \o <<<<>>>> \o TemplatePart(Tail(cats), ls)

\* what source k adds to all_content
Contribution(k) ==
    IF re_search_url(source_urls[k]) /\ network[k].ok
    THEN LET content == parse_m3u_to_txt(mapping, network[k].text)
         IN  IF content = <<>> THEN <<>> ELSE content \o NL \o NL
    ELSE <<>>

\* the record lines of the sources 1..n: source-list order, then each source's own order
RECURSIVE AggregatedRecords(_)
AggregatedRecords(n) ==
    IF n = 0 THEN <<>>
    ELSE AggregatedRecords(n - 1) \o content_lines(splitlines(Contribution(n)))

\* C3: the output starts with the categories in template order; a category's lines are
\* ordered by expected name and, under one expected name, by aggregation order, which is
\* source-list order and then each source's emitted order
C3_TemplateOrder ==
    Classified =>
        /\ all_lines = AggregatedRecords(Len(source_urls))
        /\ LET part == TemplatePart(categories, all_lines)
           IN  /\ Len(sorted_content) >= Len(part)
               /\ SubSeq(sorted_content, 1, Len(part)) = part

\* a category lists a later-aggregated line before an earlier one because its expected
\* name comes first, and one expected name holds lines of two sources
C3_Witness ==
    /\ Classified
    /\ \E c \in 1..Len(categories) :
          LET chans == categories[c].channels
          IN  /\ \E a, b \in 1..Len(chans) : \E i, j \in 1..Len(all_lines) :
                    /\ a < b /\ i < j
                    /\ re_match_channel(chans[a], all_lines[j])
                    /\ re_match_channel(chans[b], all_lines[i])
              /\ \E a \in 1..Len(chans) : \E i, j \in 1..Len(all_lines) :
                    /\ i < j
                    /\ re_match_channel(chans[a], all_lines[i])
                    /\ re_match_channel(chans[a], all_lines[j])
    /\ \A k \in 1..Len(source_urls) : Contribution(k) # <<>>
    /\ Len(source_urls) > 1

\* no expected name of the template matches the line
NoNameMatches(line) ==
    \A c \in 1..Len(categories) : \A k \in 1..Len(categories[c].channels) :
        ~re_match_channel(categories[c].channels[k], line)

\* C4: the catch-all holds exactly the lines no expected name matched, in aggregation
\* order, and its header is there iff there is such a line
C4_CatchAll ==
    Classified =>
        LET others == SelectSeq(all_lines, NoNameMatches)
            header == OtherCategory \o GenreSuffix
            n == Len(sorted_content)
        IN  /\ other_lines = others
            /\ others = <<>> => \A k \in 1..n : sorted_content[k] # header
            /\ others # <<>> =>
                  /\ n >= Len(others) + 2
                  /\ SubSeq(sorted_content, n - Len(others) - 1, n)
                         = <<header>> \o others \o <<<<>>>>
                  /\ Cardinality({k \in 1..n : sorted_content[k] = header}) = 1

\* some lines were matched and others went to the catch-all
C4_Witness ==
    /\ Classified
    /\ matched_lines # {}
    /\ Len(other_lines) > 1

\* C7 as stated: the bytes of a successful write do not end with a newline
C7_AsStated ==
    pc = "saved" =>
        \/ output_file.content = <<>>
        \/ output_file.content[Len(output_file.content)] # 10

\* C7, amended: the file of a successful write holds the emitted lines joined with
\* newlines, as UTF-8 and with nothing trimmed: it ends with the one newline in front of
\* the last category's separator
C7_JoinedUntrimmed ==
    pc = "saved" =>
        LET data == output_file.content
        IN  /\ output_file.exists
            /\ data = encode(join(NL, sorted_content))
            /\ Len(data) >= 2
            /\ data[Len(data)] = 10
            /\ data[Len(data) - 1] # 10
            /\ sorted_content[Len(sorted_content)] = <<>>

\* a document was written whose last category is the catch-all
C7_Witness ==
    /\ pc = "saved"
    /\ output_file.exists
    /\ other_lines # <<>>
    /\ matched_lines # {}

\* no source yields content
NoContent == \A k \in 1..Len(source_urls) : Contribution(k) = <<>>

\* the template has no categories
NoCategories == load_categories_from_template(template_file) = <<>>

\* C8: the classification starts, and with it the way to the write statement, only with
\* content from some source and with categories in the template: with no content or
\* with no categories the run ends before.  The file changes in no step but the one of
\* the write statement, so a run that returns early leaves it as it was.
C8_EarlyReturn ==
    [][/\ pc' = "prepare" => ~NoCategories /\ ~NoContent
       /\ pc' = "write" => all_content # <<>> /\ categories # <<>>
       /\ pc' \in {"category", "channel", "write"} => pc \in {"prepare", "category", "channel"}
       /\ output_file' # output_file => pc = "write"
       /\ pc' = "done" => output_file' = output_file /\ sorted_content' = <<>>]_vars

\* the run ended without content although the template has categories
C8_Witness ==
    /\ pc = "done"
    /\ NoContent
    /\ ~NoCategories
    /\ output_file \in OutputFiles
    /\ output_file.exists
    /\ \E k \in 1..Len(source_urls) : ~network[k].ok

\* what the sources 1..n add to all_content
RECURSIVE Aggregate(_)
Aggregate(n) == IF n = 0 THEN <<>> ELSE Aggregate(n - 1) \o Contribution(n)

\* C9: a source that fails adds nothing and the loop goes on to every later source:
\* when the loop is over every source has been asked, and all_content is what the sources
\* that gave content add, in source-list order (no later statement assigns all_content)
C9_FetchFailure ==
    /\ src_i <= Len(source_urls) + 1
    /\ pc # "fetch" => src_i = Len(source_urls) + 1
    /\ pc \in {"template", "done"} => all_content = Aggregate(Len(source_urls))

\* the loop is over: a source failed, a later one gave its content
C9_Witness ==
    /\ pc # "fetch"
    /\ \E j, k \in 1..Len(source_urls) :
          /\ j < k
          /\ ~(re_search_url(source_urls[j]) /\ network[j].ok)
          /\ Contribution(k) # <<>>
    /\ all_content # <<>>

\* C10 as stated: with zero categories and records the document is the catch-all alone
C10_AsStated ==
    (pc = "done" /\ NoCategories /\ ~NoContent) =>
        /\ output_file.exists
        /\ output_file.content
               = encode(join(NL, <<OtherCategory \o GenreSuffix>>
                                 \o AggregatedRecords(Len(source_urls)) \o <<<<>>>>))

\* C10, amended: a template with zero categories is never classified against: main
\* returns after loading it, emits no line and leaves the file as it was before the
\* run, records or not; and nothing follows the return
C10_NoClassification ==
    [][/\ (pc = "template" /\ NoCategories) =>
             /\ pc' = "done"
             /\ sorted_content' = <<>>
             /\ all_lines' = <<>>
             /\ other_lines' = <<>>
             /\ output_file' = output_file
       /\ pc # "done"]_vars

\* the run ended on a template without categories although there are records
C10_Witness ==
    /\ pc = "done"
    /\ template_file.exists
    /\ NoCategories
    /\ AggregatedRecords(Len(source_urls)) # <<>>
    /\ output_file \in OutputFiles

====
